---- MODULE Spec2Model ----
(***************************************************************************)
(* Authentication core of the Volga backend: AuthService (register, login, *)
(* refresh, logout, password reset, e-mail verification), the access-token *)
(* codec with its Redis blacklist, the request-time dependencies, and the   *)
(* role-based permissions: PermissionService and the permission cache.     *)
(*                                                                         *)
(* Time is the wall clock in minutes.  The relational store is durable: it *)
(* outlives the process, and the token tables hold the rows the store      *)
(* already contains (the migration 315ee77238a6 keeps such rows, with a    *)
(* NULL token_prefix).  Python values that reach hash_password carry their *)
(* run-time type, because jwt.create_refresh_token returns a tuple.        *)
(***************************************************************************)
EXTENDS Integers, Sequences, FiniteSets, TLC

\* ---------------------------------------------------------------- bounds
ClockStep == 15
MaxNow == 30
MaxAccessTokens == 1
MaxRequests == 2

\* ------------------------------------------------------ program constants
MAX_FAILED_ATTEMPTS == 5
LOCKOUT_DURATION_MINUTES == 30
JWT_ACCESS_TOKEN_EXPIRE_MINUTES == 30
MIN_PASSWORD_LEN == 8
MAX_PASSWORD_LEN == 128
USER_TTL_SECONDS == 3600
USER_TTL_MINUTES == USER_TTL_SECONDS \div 60
PERMISSION_TTL == 3600
PREFIX_LEN == 8

\* NULL of a timestamp column / Python None for a datetime
None == -1
\* "no row" for an id
NoId == 0

\* ------------------------------------------------------------ characters
UpperChars == {"A", "B", "X"}
LowerChars == {"a", "b", "c", "x", "w", "r", "p", "v"}
DigitChars == {"0", "1", "2", "3"}
SpecialChars == {"!", "@", "#", "$", "%", "^", "&", "*", "(", ")", "_", "+", "-", "=",
                 "[", "]", "{", "}", "|", ";", ":", ",", ".", "<", ">", "?"}

\* str.lower() on one character
LowerChar(c) ==
    CASE c = "A" -> "a"
      [] c = "B" -> "b"
      [] c = "C" -> "c"
      [] c = "X" -> "x"
      [] OTHER -> c

\* str.lower()
lower(s) == [i \in DOMAIN s |-> LowerChar(s[i])]

\* ------------------------------------------------------------- passwords
PwGood == <<"A", "b", "c", "a", "b", "c", "1", "!">>
PwNew == <<"X", "x", "w", "w", "x", "x", "2", "#">>
PwWeak == <<"a", "b", "c", "a", "b", "c", "1", "2">>
Passwords == {PwGood, PwNew, PwWeak}

\* a Python str / tuple value with its run-time type
PyStr(s) == [typ |-> "str", val |-> s]
PyTuple(a, b) == [typ |-> "tuple", val |-> a, snd |-> b]

NoHash == [alg |-> "none", of |-> <<>>]

\* password.hash_password: bcrypt digest of a str; the salt does not
\* influence checkpw and is left out.  password.encode exists on str only.
hash_password(password) ==
    IF password.typ = "str" /\ password.val = <<>>
    THEN [raised |-> "ValueError", hash |-> NoHash]
    ELSE IF password.typ # "str"
    THEN [raised |-> "AttributeError", hash |-> NoHash]
    ELSE [raised |-> "", hash |-> [alg |-> "bcrypt", of |-> password.val]]

\* password.verify_password
verify_password(plain_password, hashed_password) ==
    IF plain_password = <<>> \/ hashed_password = NoHash
    THEN FALSE
    ELSE hashed_password.alg = "bcrypt" /\ hashed_password.of = plain_password

\* password.check_password_strength: TRUE iff (True, None) is returned
check_password_strength(password) ==
    /\ password # <<>>
    /\ Len(password) >= MIN_PASSWORD_LEN
    /\ Len(password) <= MAX_PASSWORD_LEN
    /\ \E i \in DOMAIN password : password[i] \in UpperChars
    /\ \E i \in DOMAIN password : password[i] \in LowerChars
    /\ \E i \in DOMAIN password : password[i] \in DigitChars
    /\ \E i \in DOMAIN password : password[i] \in SpecialChars

\* ---------------------------------------------------------- opaque tokens
\* token_utils.extract_token_prefix / token[:8]
extract_token_prefix(token) ==
    IF Len(token) >= PREFIX_LEN THEN SubSeq(token, 1, PREFIX_LEN) ELSE token

\* token_utils.create_token_with_prefix: (token, prefix)
create_token_with_prefix(token) == PyTuple(token, extract_token_prefix(token))

\* jwt.create_refresh_token returns the pair, not the token
create_refresh_token(token) == create_token_with_prefix(token)

\* raw opaque tokens: the ones whose rows the store holds, one fresh one
\* (what secrets.token_urlsafe returns next) and one nobody was ever issued
RawTok(tag, n) == <<tag, n, "x", "x", "x", "x", "x", "x", "x">>
FreshRaw == RawTok("w", "0")
UnknownRaw == RawTok("w", "1")

\* ------------------------------------------------------------------ users
UserIds == {1, 2}
EmailA == <<"a", "@", "x">>
EmailB == <<"b", "@", "x">>
EmailAUpper == <<"A", "@", "X">>
EmailNobody == <<"c", "@", "x">>
Emails == {EmailA, EmailB, EmailAUpper, EmailNobody}
EmailOf(uid) == IF uid = 1 THEN EmailA ELSE EmailB

VARIABLES
    now,                        \* datetime.now(timezone.utc), minutes
    auth_users,                 \* table auth_users: id -> row
    refresh_tokens,             \* table refresh_tokens: id -> row
    password_reset_tokens,      \* table password_reset_tokens: id -> row
    email_verification_tokens,  \* table email_verification_tokens: id -> row
    redis_connected,            \* RedisCache.is_connected()
    user_cache,                 \* keys auth:user:{user_id}: id -> [data, expires]
    blacklist,                  \* keys auth:token:blacklist:{jti}: jti -> expires
    issued,                     \* access tokens handed to clients: jti -> claims
    resp,                       \* outcome of the last call
    login_fail_run,             \* per user: consecutive login calls that failed the
                                \* password check
    fail_run,                   \* per user: failed password checks since the last
                                \* successful check or password reset
    fail_at,                    \* per user: time of the last failed password check
    requests,                   \* requests in flight: slot -> the handler's locals
    roles,                      \* table roles: id -> row
    role_permissions,           \* table role_permissions: set of rows
    user_roles,                 \* table user_roles: set of rows
    perm_cache,                 \* keys auth:permissions:{user_id}:{agency_id}
    ratelimit                   \* keys ratelimit:{limit_type}:{identifier}: sorted sets

vars == <<now, auth_users, refresh_tokens, password_reset_tokens,
          email_verification_tokens, redis_connected, user_cache, blacklist,
          issued, resp, login_fail_run, fail_run, fail_at, requests,
          roles, role_permissions, user_roles, perm_cache, ratelimit>>

store == <<auth_users, refresh_tokens, password_reset_tokens,
           email_verification_tokens>>
cache == <<redis_connected, user_cache, blacklist, ratelimit>>
ghost == <<login_fail_run, fail_run, fail_at>>
rbac_store == <<roles, role_permissions, user_roles>>
rbac == <<rbac_store, perm_cache>>

\* ----------------------------------------------------------------- rows
NewUser(email, password_hash) ==
    [email |-> email,
     password_hash |-> password_hash,
     is_active |-> TRUE,
     is_verified |-> FALSE,
     email_verified_at |-> None,
     last_login_at |-> None,
     failed_login_attempts |-> 0,
     locked_until |-> None]

\* select(AuthUser).where(AuthUser.email == email).scalar_one_or_none()
user_by_email(email) ==
    LET found == {id \in DOMAIN auth_users : auth_users[id].email = email}
    IN IF found = {} THEN NoId ELSE CHOOSE id \in found : TRUE

\* what a call answered: the operation, the error raised ("ok" if none), the
\* user it resolved, the value it carried (unlock time, jti, rows revoked) and the secret
\* that was presented (password or raw token)
Resp(op, result, user, info, arg) ==
    [op |-> op, result |-> result, user |-> user, info |-> info, arg |-> arg]

\* ------------------------------------------------------------------ Redis
\* RedisCache.get on a key of the keyspace `keys`: None when not connected,
\* when the key is absent, or when its TTL has run out
redis_hit(keys, k) ==
    redis_connected /\ k \in DOMAIN keys /\ keys[k].expires > now

\* RedisCache.set(key, value, ttl) -> keyspace afterwards
redis_set(keys, k, value, ttl) ==
    IF ~redis_connected
    THEN keys
    ELSE [x \in (DOMAIN keys) \cup {k} |->
            IF x = k THEN [data |-> value, expires |-> now + ttl] ELSE keys[x]]

\* RedisCache.delete(key) -> keyspace afterwards
redis_delete(keys, k) ==
    IF ~redis_connected
    THEN keys
    ELSE [x \in (DOMAIN keys) \ {k} |-> keys[x]]

\* RedisCache.exists(key)
redis_exists(keys, k) ==
    IF ~redis_connected
    THEN FALSE
    ELSE k \in DOMAIN keys /\ keys[k].expires > now

\* the dict AuthCache.set_user serialises (created_at/updated_at never change)
user_data(user) ==
    [email |-> user.email,
     is_active |-> user.is_active,
     is_verified |-> user.is_verified,
     email_verified_at |-> user.email_verified_at,
     last_login_at |-> user.last_login_at,
     failed_login_attempts |-> user.failed_login_attempts,
     locked_until |-> user.locked_until]

\* AuthCache.set_user
set_user(keys, uid, user) == redis_set(keys, uid, user_data(user), USER_TTL_MINUTES)

\* AuthCache.invalidate_user
invalidate_user(keys, uid) == redis_delete(keys, uid)

\* AuthCache.is_token_blacklisted
is_token_blacklisted(jti) == redis_exists(blacklist, jti)

\* ------------------------------------------------------------ AuthService
\* RefreshToken(user_id, token_hash, expires_at, device_info)
NewRefreshToken(user_id, token_hash, expires_at) ==
    [user_id |-> user_id,
     token_hash |-> token_hash,
     token_prefix |-> <<>>,
     expires_at |-> expires_at,
     revoked_at |-> None,
     is_revoked |-> FALSE]

REFRESH_TOKEN_EXPIRE_DAYS == 30
RefreshLifetime == REFRESH_TOKEN_EXPIRE_DAYS * 24 * 60

\* id of the row an INSERT creates
NextId(table) == CHOOSE n \in 1..(Cardinality(DOMAIN table) + 1) : n \notin DOMAIN table

\* jti of the next access token (uuid4: never issued before)
NextJti == Cardinality(DOMAIN issued) + 1

\* jwt.create_access_token: the claims of the signed token
create_access_token(user_id, email) ==
    [sub |-> user_id, email |-> email, iat |-> now,
     exp |-> now + JWT_ACCESS_TOKEN_EXPIRE_MINUTES, jti |-> NextJti, type |-> "access"]

\* login: "if user.locked_until and user.locked_until > now"
is_locked_lt(user) == user.locked_until # None /\ user.locked_until < now
is_locked(user) == user.locked_until # None /\ user.locked_until > now

\* login: the lockout a failed password check leaves
lock_after_failure_gt(attempts, locked_until) ==
    IF attempts > MAX_FAILED_ATTEMPTS
    THEN now + LOCKOUT_DURATION_MINUTES
    ELSE locked_until
lock_after_failure(attempts, locked_until) ==
    IF attempts >= MAX_FAILED_ATTEMPTS
    THEN now + LOCKOUT_DURATION_MINUTES
    ELSE locked_until

\* login: the user row a passed password check leaves
reset_guard_keep_attempts(user) ==
    [user EXCEPT !.locked_until = None, !.last_login_at = now]
reset_guard(user) ==
    [user EXCEPT !.failed_login_attempts = 0,
                 !.locked_until = None,
                 !.last_login_at = now]

\* AuthService.login, as a function of the current state: the outcome and
\* the store, cache and token state it leaves
login_eval(email, password) ==
    LET uid == user_by_email(lower(email))
        same == [auth_users |-> auth_users, refresh_tokens |-> refresh_tokens,
                 user_cache |-> user_cache, issued |-> issued,
                 login_fail_run |-> login_fail_run,
                 fail_run |-> fail_run, fail_at |-> fail_at]
    IN
    IF uid = NoId
    THEN [resp |-> Resp("login", "UserNotFoundError", NoId, None, password)] @@ same
    ELSE
    LET user == auth_users[uid] IN
    IF is_locked(user)
    THEN [resp |-> Resp("login", "AccountLockedError", uid, user.locked_until, password)] @@ same
    ELSE IF ~user.is_active
    THEN [resp |-> Resp("login", "UserInactiveError", uid, None, password)] @@ same
    ELSE IF ~verify_password(password, user.password_hash)
    THEN
        LET attempts == user.failed_login_attempts + 1
            failed == [user EXCEPT
                         !.failed_login_attempts = attempts,
                         !.locked_until = lock_after_failure(attempts, @)]
        IN [resp |-> Resp("login", "InvalidCredentialsError", uid, None, password),
            auth_users |-> [auth_users EXCEPT ![uid] = failed],
            login_fail_run |-> [login_fail_run EXCEPT ![uid] = @ + 1],
            fail_run |-> [fail_run EXCEPT ![uid] = @ + 1],
            fail_at |-> [fail_at EXCEPT ![uid] = now]] @@ same
    ELSE
        LET ok == reset_guard(user)
            committed == [auth_users |-> [auth_users EXCEPT ![uid] = ok],
                          user_cache |-> set_user(invalidate_user(user_cache, uid), uid, ok),
                          login_fail_run |-> [login_fail_run EXCEPT ![uid] = 0],
                          fail_run |-> [fail_run EXCEPT ![uid] = 0]]
            access_token == create_access_token(uid, ok.email)
            plain_refresh_token == create_refresh_token(FreshRaw)
            refresh_token_hash == hash_password(plain_refresh_token)
        IN
        IF refresh_token_hash.raised # ""
        THEN [resp |-> Resp("login", refresh_token_hash.raised, uid, None, password)]
             @@ committed @@ same
        ELSE [resp |-> Resp("login", "ok", uid, access_token.jti, password),
              refresh_tokens |->
                  [x \in (DOMAIN refresh_tokens) \cup {NextId(refresh_tokens)} |->
                      IF x \in DOMAIN refresh_tokens
                      THEN refresh_tokens[x]
                      ELSE NewRefreshToken(uid, refresh_token_hash.hash,
                                           now + RefreshLifetime)],
              issued |-> [x \in (DOMAIN issued) \cup {access_token.jti} |->
                            IF x \in DOMAIN issued THEN issued[x] ELSE access_token]]
             @@ committed @@ same

\* AuthService.login
login(email, password) ==
    LET r == login_eval(email, password) IN
    /\ resp' = r.resp
    /\ auth_users' = r.auth_users
    /\ refresh_tokens' = r.refresh_tokens
    /\ user_cache' = r.user_cache
    /\ issued' = r.issued
    /\ login_fail_run' = r.login_fail_run
    /\ fail_run' = r.fail_run
    /\ fail_at' = r.fail_at
    /\ UNCHANGED <<now, requests, rbac, password_reset_tokens, email_verification_tokens,
                   redis_connected, ratelimit, blacklist>>

\* the clock advances; Redis drops the keys whose TTL has run out
Tick ==
    /\ now + ClockStep <= MaxNow
    /\ now' = now + ClockStep
    /\ user_cache' = [k \in {x \in DOMAIN user_cache : user_cache[x].expires > now'}
                        |-> user_cache[k]]
    /\ blacklist' = [k \in {x \in DOMAIN blacklist : blacklist[x].expires > now'}
                        |-> blacklist[k]]
    /\ perm_cache' = [k \in {x \in DOMAIN perm_cache : perm_cache[x].expires > now'}
                        |-> perm_cache[k]]
    /\ ratelimit' = [k \in {x \in DOMAIN ratelimit : ratelimit[x].expires > now' * 60}
                        |-> ratelimit[k]]
    /\ UNCHANGED <<store, redis_connected, issued, resp, ghost, requests, rbac_store>>

\* ------------------------------------------------------ rows of the store
DigitOf(n) == CASE n = 1 -> "1" [] n = 2 -> "2" [] OTHER -> "3"

\* the raw tokens behind the stored hashes: refresh, reset and verification
RefreshRaw(n) == RawTok("r", DigitOf(n))
ResetRaw(n) == RawTok("p", DigitOf(n))
VerifyRaw(n) == RawTok("v", DigitOf(n))
RefreshRaws == {RefreshRaw(1), RefreshRaw(2), RefreshRaw(3), UnknownRaw}
ResetRaws == {ResetRaw(1), ResetRaw(2), UnknownRaw}
VerifyRaws == {VerifyRaw(1), VerifyRaw(2), UnknownRaw}

PASSWORD_RESET_EXPIRE_HOURS == 1
EMAIL_VERIFICATION_EXPIRE_HOURS == 24

\* PasswordResetToken(user_id, token_hash, expires_at)
NewPasswordResetToken(user_id, token_hash, expires_at) ==
    [user_id |-> user_id, token_hash |-> token_hash, token_prefix |-> <<>>,
     expires_at |-> expires_at, used_at |-> None]

\* EmailVerificationToken(user_id, token_hash, expires_at)
NewEmailVerificationToken(user_id, token_hash, expires_at) ==
    [user_id |-> user_id, token_hash |-> token_hash,
     expires_at |-> expires_at, verified_at |-> None]

\* the rows the store holds when the process starts: two registered users,
\* refresh tokens of two devices of user 1 (one close to its expiry) and of
\* one device of user 2, one reset and one verification token per user
InitUsers ==
    [id \in UserIds |-> NewUser(EmailOf(id), hash_password(PyStr(PwGood)).hash)]

InitRefreshTokens ==
    [id \in {1, 2, 3} |->
        NewRefreshToken(IF id = 3 THEN 2 ELSE 1,
                        hash_password(PyStr(RefreshRaw(id))).hash,
                        IF id = 2 THEN 2 * ClockStep ELSE RefreshLifetime)]

InitResetTokens ==
    [id \in {1, 2} |->
        NewPasswordResetToken(id, hash_password(PyStr(ResetRaw(id))).hash,
                              IF id = 1 THEN PASSWORD_RESET_EXPIRE_HOURS * 60
                              ELSE 2 * ClockStep)]

InitVerifyTokens ==
    [id \in {1, 2} |->
        NewEmailVerificationToken(id, hash_password(PyStr(VerifyRaw(id))).hash,
                                  IF id = 1 THEN EMAIL_VERIFICATION_EXPIRE_HOURS * 60
                                  ELSE 2 * ClockStep)]

\* ------------------------------------------------------------ RBAC rows
\* table permissions (scripts/seed_permissions.py), by name
Permissions == {"contacts.view", "contacts.edit"}

\* table agencies, and one id no agency has
Agencies == {1, 2}
NoAgency == 3

\* table roles at start: a seeded system role and one made by create_role
RoleIds == {1, 2}
NewRole(name, is_system_role) == [name |-> name, is_system_role |-> is_system_role]
InitRoles ==
    [id \in RoleIds |->
        IF id = 1 THEN NewRole("agent", TRUE) ELSE NewRole("assistant", FALSE)]

\* RolePermission(role_id, permission_id)
NewRolePermission(role_id, permission) == [role_id |-> role_id, permission |-> permission]
InitRolePermissions ==
    {NewRolePermission(1, "contacts.view"), NewRolePermission(1, "contacts.edit"),
     NewRolePermission(2, "contacts.view")}

\* UserRoleAssignment(user_id, role_id, agency_id, granted_by, expires_at)
NewUserRole(user_id, role_id, agency_id, expires_at) ==
    [user_id |-> user_id, role_id |-> role_id, agency_id |-> agency_id,
     expires_at |-> expires_at]

NoResp == Resp("none", "none", NoId, None, <<>>)

\* a request slot no handler is running in, and the handlers' locals
Idle ==
    [op |-> "none", pc |-> "idle", token |-> <<>>, password |-> <<>>,
     matching_token |-> NoId, result |-> "none", from_cache |-> FALSE,
     loaded |-> <<>>]
Requests == 1..MaxRequests
NoRequests == [r \in Requests |-> Idle]
EmptyMap == [x \in {} |-> 0]

Init ==
    /\ now = 0
    /\ auth_users = InitUsers
    /\ refresh_tokens = InitRefreshTokens
    /\ password_reset_tokens = InitResetTokens
    /\ email_verification_tokens = InitVerifyTokens
    /\ redis_connected = TRUE
    /\ user_cache = EmptyMap
    /\ blacklist = EmptyMap
    /\ issued = EmptyMap
    /\ resp = NoResp
    /\ login_fail_run = [id \in UserIds |-> 0]
    /\ fail_run = [id \in UserIds |-> 0]
    /\ fail_at = [id \in UserIds |-> None]
    /\ requests = NoRequests
    /\ roles = InitRoles
    /\ role_permissions = InitRolePermissions
    /\ user_roles = {}
    /\ perm_cache = EmptyMap
    /\ ratelimit = EmptyMap

\* the refresh-token table after AuthService.logout_all_devices(user_id)
revoke_all_any_user(tokens, user_id) ==
    [id \in DOMAIN tokens |->
        IF tokens[id].is_revoked = FALSE
        THEN [tokens[id] EXCEPT !.is_revoked = TRUE, !.revoked_at = now]
        ELSE tokens[id]]
revoke_all(tokens, user_id) ==
    [id \in DOMAIN tokens |->
        IF tokens[id].user_id = user_id /\ tokens[id].is_revoked = FALSE
        THEN [tokens[id] EXCEPT !.is_revoked = TRUE, !.revoked_at = now]
        ELSE tokens[id]]

\* AuthService.logout_all_devices
logout_all_devices_one_token(user_id) ==
    /\ refresh_tokens' =
           [id \in DOMAIN refresh_tokens |->
               IF \A x \in DOMAIN refresh_tokens :
                      (refresh_tokens[x].user_id = user_id /\ ~refresh_tokens[x].is_revoked)
                      => id <= x
               THEN revoke_all(refresh_tokens, user_id)[id]
               ELSE refresh_tokens[id]]
    /\ user_cache' = invalidate_user(user_cache, user_id)
    /\ resp' = Resp("logout_all_devices", "ok", user_id, None, <<>>)
    /\ UNCHANGED <<now, requests, rbac, auth_users, password_reset_tokens, email_verification_tokens,
                   redis_connected, ratelimit, blacklist, issued, ghost>>
logout_all_devices(user_id) ==
    /\ refresh_tokens' = revoke_all(refresh_tokens, user_id)
    /\ user_cache' = invalidate_user(user_cache, user_id)
    /\ resp' = Resp("logout_all_devices", "ok", user_id, None, <<>>)
    /\ UNCHANGED <<now, requests, rbac, auth_users, password_reset_tokens, email_verification_tokens,
                   redis_connected, ratelimit, blacklist, issued, ghost>>

\* the unconsumed, unexpired reset-token rows whose hash matches the raw token
reset_matches_used(reset_token) ==
    {id \in DOMAIN password_reset_tokens :
        /\ password_reset_tokens[id].expires_at > now
        /\ verify_password(reset_token, password_reset_tokens[id].token_hash)}
reset_matches(reset_token) ==
    {id \in DOMAIN password_reset_tokens :
        /\ password_reset_tokens[id].used_at = None
        /\ password_reset_tokens[id].expires_at > now
        /\ verify_password(reset_token, password_reset_tokens[id].token_hash)}

\* reset_password l.409-429: the writes of the request that matched row tid
reset_password_write(tid, reset_token, new_password) ==
    LET uid == password_reset_tokens[tid].user_id IN
    /\ auth_users' = [auth_users EXCEPT ![uid] =
           [@ EXCEPT !.password_hash = hash_password(PyStr(new_password)).hash,
                     !.failed_login_attempts = 0,
                     !.locked_until = None]]
    /\ password_reset_tokens' =
           [password_reset_tokens EXCEPT ![tid].used_at = now]
    /\ refresh_tokens' = revoke_all(refresh_tokens, uid)
    /\ user_cache' = invalidate_user(user_cache, uid)
    /\ fail_run' = [fail_run EXCEPT ![uid] = 0]
    /\ resp' = Resp("reset_password", "ok", uid, None, reset_token)
    /\ UNCHANGED <<now, rbac, email_verification_tokens, redis_connected, ratelimit, blacklist,
                   issued, login_fail_run, fail_at>>

\* reset_password without the strength check of l.387-389
reset_password_unchecked(reset_token, new_password) ==
    IF reset_matches(reset_token) = {}
    THEN /\ resp' = Resp("reset_password", "InvalidTokenError", NoId, None, reset_token)
         /\ UNCHANGED <<now, requests, rbac, store, cache, issued, ghost>>
    ELSE \E tid \in reset_matches(reset_token) :
         /\ reset_password_write(tid, reset_token, new_password)
         /\ UNCHANGED requests
\* AuthService.reset_password, one request running alone
reset_password(reset_token, new_password) ==
    IF ~check_password_strength(new_password)
    THEN /\ resp' = Resp("reset_password", "ValueError", NoId, None, reset_token)
         /\ UNCHANGED <<now, requests, rbac, store, cache, issued, ghost>>
    ELSE IF reset_matches(reset_token) = {}
    THEN /\ resp' = Resp("reset_password", "InvalidTokenError", NoId, None, reset_token)
         /\ UNCHANGED <<now, requests, rbac, store, cache, issued, ghost>>
    ELSE \E tid \in reset_matches(reset_token) :
         /\ reset_password_write(tid, reset_token, new_password)
         /\ UNCHANGED requests

\* ----------------------------------------------------- refresh and logout
\* the non-revoked, unexpired refresh-token rows whose hash matches
refresh_matches_revoked(refresh_token) ==
    {id \in DOMAIN refresh_tokens :
        /\ refresh_tokens[id].expires_at > now
        /\ verify_password(refresh_token, refresh_tokens[id].token_hash)}
refresh_matches(refresh_token) ==
    {id \in DOMAIN refresh_tokens :
        /\ refresh_tokens[id].is_revoked = FALSE
        /\ refresh_tokens[id].expires_at > now
        /\ verify_password(refresh_token, refresh_tokens[id].token_hash)}

\* the access-token table after one more token was handed out
issue(claims) ==
    [x \in (DOMAIN issued) \cup {claims.jti} |->
        IF x \in DOMAIN issued THEN issued[x] ELSE claims]

\* refresh_access_token without its check of user.is_active
refresh_result_inactive_allowed(refresh_token) ==
    IF refresh_matches(refresh_token) = {}
    THEN "InvalidTokenError"
    ELSE LET matching_token == refresh_tokens[CHOOSE id \in refresh_matches(refresh_token) : TRUE]
         IN IF matching_token.is_revoked \/ matching_token.revoked_at # None
            THEN "RefreshTokenRevokedError"
            ELSE IF matching_token.expires_at < now
            THEN "TokenExpiredError"
            ELSE "ok"
\* AuthService.refresh_access_token: the error raised, "ok" if none
refresh_result(refresh_token) ==
    IF refresh_matches(refresh_token) = {}
    THEN "InvalidTokenError"
    ELSE LET matching_token == refresh_tokens[CHOOSE id \in refresh_matches(refresh_token) : TRUE]
         IN IF matching_token.is_revoked \/ matching_token.revoked_at # None
            THEN "RefreshTokenRevokedError"
            ELSE IF matching_token.expires_at < now
            THEN "TokenExpiredError"
            ELSE IF ~auth_users[matching_token.user_id].is_active
            THEN "UserInactiveError"
            ELSE "ok"

\* AuthService.refresh_access_token
refresh_access_token_rotating(refresh_token) ==
    LET result == refresh_result(refresh_token) IN
    IF result # "ok"
    THEN /\ resp' = Resp("refresh_access_token", result, NoId, None, refresh_token)
         /\ UNCHANGED <<now, requests, rbac, store, cache, issued, ghost>>
    ELSE LET id == CHOOSE x \in refresh_matches(refresh_token) : TRUE
             uid == refresh_tokens[id].user_id
             access_token == create_access_token(uid, auth_users[uid].email)
         IN /\ Cardinality(DOMAIN issued) < MaxAccessTokens
            /\ issued' = issue(access_token)
            /\ refresh_tokens' = [refresh_tokens EXCEPT ![id].is_revoked = TRUE,
                                                         ![id].revoked_at = now]
            /\ resp' = Resp("refresh_access_token", "ok", uid, access_token.jti, refresh_token)
            /\ UNCHANGED <<now, requests, rbac, auth_users, password_reset_tokens,
                           email_verification_tokens, cache, ghost>>
refresh_access_token(refresh_token) ==
    LET result == refresh_result(refresh_token) IN
    IF result # "ok"
    THEN /\ resp' = Resp("refresh_access_token", result, NoId, None, refresh_token)
         /\ UNCHANGED <<now, requests, rbac, store, cache, issued, ghost>>
    ELSE LET uid == refresh_tokens[CHOOSE id \in refresh_matches(refresh_token) : TRUE].user_id
             access_token == create_access_token(uid, auth_users[uid].email)
         IN /\ Cardinality(DOMAIN issued) < MaxAccessTokens
            /\ issued' = issue(access_token)
            /\ resp' = Resp("refresh_access_token", "ok", uid, access_token.jti, refresh_token)
            /\ UNCHANGED <<now, requests, rbac, store, cache, ghost>>

\* the parameters AuthService.logout accepts
logout_params == {"refresh_token"}

\* AuthService.logout called with the keyword arguments `kwargs`: the error
\* raised ("" if none) and the refresh-token table afterwards
logout_eval(kwargs, refresh_token) ==
    IF ~(kwargs \subseteq logout_params)
    THEN [raised |-> "TypeError", refresh_tokens |-> refresh_tokens]
    ELSE IF refresh_matches(refresh_token) = {}
    THEN [raised |-> "", refresh_tokens |-> refresh_tokens]
    ELSE LET id == CHOOSE x \in refresh_matches(refresh_token) : TRUE IN
         [raised |-> "",
          refresh_tokens |-> [refresh_tokens EXCEPT ![id] =
              [@ EXCEPT !.is_revoked = TRUE, !.revoked_at = now]]]

\* AuthService.logout(refresh_token)
logout(refresh_token) ==
    LET r == logout_eval({"refresh_token"}, refresh_token) IN
    /\ refresh_tokens' = r.refresh_tokens
    /\ resp' = Resp("logout", IF r.raised = "" THEN "ok" ELSE r.raised, NoId,
                    Cardinality({id \in DOMAIN refresh_tokens :
                                    r.refresh_tokens[id] # refresh_tokens[id]}),
                    refresh_token)
    /\ UNCHANGED <<now, requests, rbac, auth_users, password_reset_tokens, email_verification_tokens,
                   cache, issued, ghost>>

\* ------------------------------------------------------ e-mail verification
\* the unconsumed, unexpired verification rows whose hash matches
verify_matches(verification_token) ==
    {id \in DOMAIN email_verification_tokens :
        /\ email_verification_tokens[id].verified_at = None
        /\ email_verification_tokens[id].expires_at > now
        /\ verify_password(verification_token, email_verification_tokens[id].token_hash)}

\* verify_email l.501-521: the writes of the request that matched row tid
verify_email_write(tid, verification_token) ==
    LET uid == email_verification_tokens[tid].user_id
        verified == [auth_users[uid] EXCEPT !.is_verified = TRUE,
                                            !.email_verified_at = now]
    IN
    /\ auth_users' = [auth_users EXCEPT ![uid] = verified]
    /\ email_verification_tokens' =
           [email_verification_tokens EXCEPT ![tid].verified_at = now]
    /\ user_cache' = set_user(invalidate_user(user_cache, uid), uid, verified)
    /\ resp' = Resp("verify_email", "ok", uid, None, verification_token)
    /\ UNCHANGED <<now, rbac, refresh_tokens, password_reset_tokens, redis_connected, ratelimit,
                   blacklist, issued, ghost>>

\* AuthService.verify_email, one request running alone
verify_email(verification_token) ==
    IF verify_matches(verification_token) = {}
    THEN /\ resp' = Resp("verify_email", "InvalidTokenError", NoId, None, verification_token)
         /\ UNCHANGED <<now, requests, rbac, store, cache, issued, ghost>>
    ELSE \E tid \in verify_matches(verification_token) :
         /\ verify_email_write(tid, verification_token)
         /\ UNCHANGED requests

\* ---------------------------------------------------------- access tokens
\* what a client can put in the Authorization header: the jti of a token this
\* service signed, a token it did not sign, or no header at all
Forged == 0
NoHeader == None

\* jwt.decode(token, JWT_SECRET_KEY, algorithms): the PyJWT error, "ok" if none
jwt_decode_lt(token) ==
    IF token \notin DOMAIN issued
    THEN "InvalidSignatureError"
    ELSE IF issued[token].exp < now
    THEN "ExpiredSignatureError"
    ELSE "ok"
jwt_decode(token) ==
    IF token \notin DOMAIN issued
    THEN "InvalidSignatureError"
    ELSE IF issued[token].exp <= now
    THEN "ExpiredSignatureError"
    ELSE "ok"

\* jwt.verify_token: the error raised, "ok" if the payload is returned
verify_token(token) ==
    IF jwt_decode(token) = "ok"
    THEN IF is_token_blacklisted(issued[token].jti)
         THEN "InvalidTokenError"
         ELSE "ok"
    ELSE IF jwt_decode(token) = "ExpiredSignatureError"
    THEN "TokenExpiredError"
    ELSE "InvalidTokenError"

\* jwt.decode_token(token, verify=True): the error raised, "ok" if none
decode_token(token) ==
    IF jwt_decode(token) = "ok" THEN "ok" ELSE "InvalidTokenError"

\* AuthMiddleware.dispatch (auto_error=True) on a non-public path: the status
\* it answers itself, "next" when it hands the request to the route
dispatch(token) ==
    IF token = NoHeader
    THEN "401"
    ELSE IF decode_token(token) # "ok"
    THEN "401"
    ELSE IF is_token_blacklisted(issued[token].jti)
    THEN "401"
    ELSE "next"

\* what dependencies.get_current_user answers
Unauthorized(status) ==
    [status |-> status, user |-> NoId, is_active |-> FALSE, user_cache |-> user_cache]

\* dependencies.get_current_user: the HTTP error ("ok" if none), the user it
\* returns and the user cache it leaves
get_current_user(token) ==
    IF token = NoHeader
    THEN Unauthorized("401")
    ELSE IF verify_token(token) # "ok"
    THEN Unauthorized("401")
    ELSE IF is_token_blacklisted(issued[token].jti)
    THEN Unauthorized("401")
    ELSE LET user_id == issued[token].sub IN
         IF redis_hit(user_cache, user_id)
         THEN [status |-> "ok", user |-> user_id,
               is_active |-> user_cache[user_id].data.is_active,
               user_cache |-> user_cache]
         ELSE IF user_id \notin DOMAIN auth_users
         THEN Unauthorized("401")
         ELSE [status |-> "ok", user |-> user_id,
               is_active |-> auth_users[user_id].is_active,
               user_cache |-> set_user(user_cache, user_id, auth_users[user_id])]

\* dependencies.get_current_active_user
get_current_active_user(token) ==
    LET current_user == get_current_user(token) IN
    IF current_user.status = "ok" /\ ~current_user.is_active
    THEN [current_user EXCEPT !.status = "403"]
    ELSE current_user

\* a request to a protected route: the middleware, then the route's dependency
authenticate(token) ==
    IF dispatch(token) # "next"
    THEN Unauthorized(dispatch(token))
    ELSE get_current_active_user(token)

\* GET /api/v1/me
get_me(token) ==
    LET current_user == authenticate(token) IN
    /\ user_cache' = current_user.user_cache
    /\ resp' = Resp("get_me",
                    IF current_user.status = "ok" THEN "200" ELSE current_user.status,
                    current_user.user, token, <<>>)
    /\ UNCHANGED <<now, requests, rbac, store, redis_connected, ratelimit, blacklist, issued, ghost>>

\* POST /api/v1/logout: the handler passes access_token_jti, which
\* AuthService.logout does not accept, and answers 200 whatever was raised
logout_endpoint(token, refresh_token) ==
    LET current_user == authenticate(token)
        r == logout_eval({"refresh_token", "access_token_jti"}, refresh_token)
    IN
    /\ user_cache' = current_user.user_cache
    /\ refresh_tokens' =
           IF current_user.status = "ok" THEN r.refresh_tokens ELSE refresh_tokens
    /\ resp' = Resp("logout_endpoint",
                    IF current_user.status = "ok" THEN "200" ELSE current_user.status,
                    current_user.user, token, refresh_token)
    /\ UNCHANGED <<now, requests, rbac, auth_users, password_reset_tokens,
                   email_verification_tokens, redis_connected, ratelimit, blacklist, issued, ghost>>

\* AuthCache.blacklist_token(jti, ttl)
blacklist_token(jti, ttl) ==
    /\ blacklist' = redis_set(blacklist, jti, "blacklisted", ttl)
    /\ resp' = Resp("blacklist_token", IF redis_connected THEN "ok" ELSE "False",
                    NoId, jti, <<>>)
    /\ UNCHANGED <<now, requests, rbac, store, redis_connected, ratelimit, user_cache, issued, ghost>>

\* the connection to Redis is lost: every call of RedisCache takes its
\* "not connected" / exception branch
redis_outage ==
    /\ redis_connected
    /\ redis_connected' = FALSE
    /\ UNCHANGED <<now, requests, rbac, store, user_cache, blacklist, ratelimit, issued, resp,
                   ghost>>

\* RedisCache.connect succeeds again
connect ==
    /\ ~redis_connected
    /\ redis_connected' = TRUE
    /\ UNCHANGED <<now, requests, rbac, store, user_cache, blacklist, ratelimit, issued, resp,
                   ghost>>

\* ------------------------------------------------------ concurrent requests
\* reset_password l.386-407 in request slot r: the strength check, the SELECT
\* of the unconsumed, unexpired rows and the search for the matching one
reset_password_select(r, reset_token, new_password) ==
    LET started == [Idle EXCEPT !.op = "reset_password", !.token = reset_token,
                                !.password = new_password]
        failed(error) == [started EXCEPT !.pc = "done", !.result = error]
    IN
    /\ requests[r].pc = "idle"
    /\ requests' = [requests EXCEPT ![r] =
           IF ~check_password_strength(new_password)
           THEN failed("ValueError")
           ELSE IF reset_matches(reset_token) = {}
           THEN failed("InvalidTokenError")
           ELSE [started EXCEPT !.pc = "selected",
                                !.matching_token =
                                    CHOOSE id \in reset_matches(reset_token) : TRUE]]
    /\ resp' = IF requests'[r].pc = "done"
               THEN Resp("reset_password", requests'[r].result, NoId, None, reset_token)
               ELSE resp
    /\ UNCHANGED <<now, rbac, store, cache, issued, ghost>>

\* reset_password l.409-429 in request slot r: the session's writes reach the
\* store with the commit
reset_password_commit(r) ==
    /\ requests[r].op = "reset_password"
    /\ requests[r].pc = "selected"
    /\ reset_password_write(requests[r].matching_token, requests[r].token,
                            requests[r].password)
    /\ requests' = [requests EXCEPT ![r].pc = "done", ![r].result = "ok"]

\* verify_email l.483-499 in request slot r
verify_email_select(r, verification_token) ==
    LET started == [Idle EXCEPT !.op = "verify_email", !.token = verification_token]
    IN
    /\ requests[r].pc = "idle"
    /\ requests' = [requests EXCEPT ![r] =
           IF verify_matches(verification_token) = {}
           THEN [started EXCEPT !.pc = "done", !.result = "InvalidTokenError"]
           ELSE [started EXCEPT !.pc = "selected",
                                !.matching_token =
                                    CHOOSE id \in verify_matches(verification_token) : TRUE]]
    /\ resp' = IF requests'[r].pc = "done"
               THEN Resp("verify_email", "InvalidTokenError", NoId, None,
                         verification_token)
               ELSE resp
    /\ UNCHANGED <<now, rbac, store, cache, issued, ghost>>

\* verify_email l.501-521 in request slot r
verify_email_commit(r) ==
    /\ requests[r].op = "verify_email"
    /\ requests[r].pc = "selected"
    /\ verify_email_write(requests[r].matching_token, requests[r].token)
    /\ requests' = [requests EXCEPT ![r].pc = "done", ![r].result = "ok"]

\* ------------------------------------------------------ PermissionService
\* "expires_at IS NULL OR expires_at > now"
not_expired_ge(row) == row.expires_at = None \/ row.expires_at >= now
not_expired(row) == row.expires_at = None \/ row.expires_at > now

\* PermissionService.get_user_permissions: the names the join of permissions,
\* role_permissions, roles and user_roles selects
get_user_permissions_any_agency(user_id, agency_id, include_expired) ==
    {rp.permission : rp \in
        {x \in role_permissions :
            /\ x.permission \in Permissions
            /\ x.role_id \in DOMAIN roles
            /\ \E ur \in user_roles :
                  /\ ur.role_id = x.role_id
                  /\ ur.user_id = user_id
                  /\ (include_expired \/ not_expired(ur))}}
get_user_permissions(user_id, agency_id, include_expired) ==
    {rp.permission : rp \in
        {x \in role_permissions :
            /\ x.permission \in Permissions
            /\ x.role_id \in DOMAIN roles
            /\ \E ur \in user_roles :
                  /\ ur.role_id = x.role_id
                  /\ ur.user_id = user_id
                  /\ ur.agency_id = agency_id
                  /\ (include_expired \/ not_expired(ur))}}

\* PermissionService.get_user_roles: the ids of the roles returned
get_user_roles(user_id, agency_id, include_expired) ==
    {ur.role_id : ur \in
        {x \in user_roles :
            /\ x.role_id \in DOMAIN roles
            /\ x.user_id = user_id
            /\ x.agency_id = agency_id
            /\ (include_expired \/ not_expired(x))}}

\* PermissionService.has_role
has_role(user_id, agency_id, role_name) ==
    \E ur \in user_roles :
        /\ ur.role_id \in DOMAIN roles
        /\ ur.user_id = user_id
        /\ ur.agency_id = agency_id
        /\ roles[ur.role_id].name = role_name
        /\ not_expired(ur)

\* PermissionService.assign_role: the error raised ("ok" if none) and the
\* user_roles table afterwards
assign_role_eval_always_adds(user_id, role_id, agency_id, expires_at) ==
    IF user_id \notin DOMAIN auth_users \/ role_id \notin DOMAIN roles
       \/ agency_id \notin Agencies
    THEN [result |-> "InvalidInputError", user_roles |-> user_roles,
          returned |-> <<>>]
    ELSE [result |-> "ok",
          user_roles |-> user_roles \cup
              {NewUserRole(user_id, role_id, agency_id, expires_at)},
          returned |-> <<NewUserRole(user_id, role_id, agency_id, expires_at)>>]
assign_role_eval(user_id, role_id, agency_id, expires_at) ==
    LET existing == {ur \in user_roles :
                        /\ ur.user_id = user_id
                        /\ ur.role_id = role_id
                        /\ ur.agency_id = agency_id
                        /\ not_expired(ur)}
    IN
    IF user_id \notin DOMAIN auth_users \/ role_id \notin DOMAIN roles
       \/ agency_id \notin Agencies
    THEN [result |-> "InvalidInputError", user_roles |-> user_roles,
          returned |-> <<>>]
    ELSE IF Cardinality(existing) > 1
    THEN [result |-> "MultipleResultsFound", user_roles |-> user_roles,
          returned |-> <<>>]
    ELSE IF existing # {}
    THEN [result |-> "ok", user_roles |-> user_roles,
          returned |-> <<CHOOSE ur \in existing : TRUE>>]
    ELSE [result |-> "ok",
          user_roles |-> user_roles \cup
              {NewUserRole(user_id, role_id, agency_id, expires_at)},
          returned |-> <<NewUserRole(user_id, role_id, agency_id, expires_at)>>]

\* PermissionService.assign_role; the response carries the expiry asked for
\* and the assignment returned
assign_role(user_id, role_id, agency_id, expires_at) ==
    LET r == assign_role_eval(user_id, role_id, agency_id, expires_at) IN
    /\ user_roles' = r.user_roles
    /\ resp' = Resp("assign_role", r.result, user_id, agency_id,
                    <<expires_at>> \o r.returned)
    /\ UNCHANGED <<now, requests, store, cache, issued, ghost, roles,
                   role_permissions, perm_cache>>

\* PermissionService.revoke_role: the user_roles table after the DELETE
revoke_role_rows_live_only(user_id, role_id, agency_id) ==
    {ur \in user_roles :
        ~(/\ ur.user_id = user_id /\ ur.role_id = role_id
          /\ ur.agency_id = agency_id /\ not_expired(ur))}
revoke_role_rows(user_id, role_id, agency_id) ==
    {ur \in user_roles :
        ~(ur.user_id = user_id /\ ur.role_id = role_id /\ ur.agency_id = agency_id)}

\* PermissionService.revoke_role
revoke_role(user_id, role_id, agency_id) ==
    /\ user_roles' = revoke_role_rows(user_id, role_id, agency_id)
    /\ resp' = Resp("revoke_role", IF user_roles' # user_roles THEN "True" ELSE "False",
                    user_id, agency_id,
                    <<Cardinality(user_roles) - Cardinality(user_roles')>>)
    /\ UNCHANGED <<now, requests, store, cache, issued, ghost, roles,
                   role_permissions, perm_cache>>

\* PermissionService.assign_permission_to_role
assign_permission_to_role(role_id, permission) ==
    /\ role_permissions' =
           IF role_id \in DOMAIN roles /\ permission \in Permissions
           THEN role_permissions \cup {NewRolePermission(role_id, permission)}
           ELSE role_permissions
    /\ resp' = Resp("assign_permission_to_role",
                    IF role_id \in DOMAIN roles /\ permission \in Permissions
                    THEN "ok" ELSE "InvalidInputError",
                    NoId, role_id, <<>>)
    /\ UNCHANGED <<now, requests, store, cache, issued, ghost, roles, user_roles,
                   perm_cache>>

\* PermissionService.revoke_permission_from_role
revoke_permission_from_role(role_id, permission) ==
    /\ role_permissions' = role_permissions \ {NewRolePermission(role_id, permission)}
    /\ resp' = Resp("revoke_permission_from_role",
                    IF role_permissions' # role_permissions THEN "True" ELSE "False",
                    NoId, role_id, <<>>)
    /\ UNCHANGED <<now, requests, store, cache, issued, ghost, roles, user_roles,
                   perm_cache>>

\* PermissionService.get_role_permissions: the names of the permissions joined
\* to the role's rows
get_role_permissions(role_id) ==
    {rp.permission : rp \in {x \in role_permissions :
                                 x.role_id = role_id /\ x.permission \in Permissions}}

\* PermissionService.set_role_permissions
set_role_permissions_adding(role_id, permission_ids) ==
    /\ role_permissions' =
           IF role_id \notin DOMAIN roles
           THEN role_permissions
           ELSE role_permissions
                \cup {NewRolePermission(role_id, p) : p \in permission_ids}
    /\ resp' = Resp("set_role_permissions",
                    IF role_id \in DOMAIN roles THEN "ok" ELSE "InvalidInputError",
                    NoId, role_id, <<>>)
    /\ UNCHANGED <<now, requests, store, cache, issued, ghost, roles, user_roles,
                   perm_cache>>
set_role_permissions(role_id, permission_ids) ==
    /\ role_permissions' =
           IF role_id \notin DOMAIN roles
           THEN role_permissions
           ELSE {rp \in role_permissions : rp.role_id # role_id}
                \cup {NewRolePermission(role_id, p) : p \in permission_ids}
    /\ resp' = Resp("set_role_permissions",
                    IF role_id \in DOMAIN roles THEN "ok" ELSE "InvalidInputError",
                    NoId, role_id, <<>>)
    /\ UNCHANGED <<now, requests, store, cache, issued, ghost, roles, user_roles,
                   perm_cache>>

\* PermissionService.delete_role: role_permissions.role_id and
\* user_roles.role_id are foreign keys without ON DELETE, so the DELETE of a
\* role that rows still refer to fails at the commit
delete_role(role_id) ==
    LET result ==
            IF role_id \notin DOMAIN roles THEN "False"
            ELSE IF roles[role_id].is_system_role THEN "InvalidInputError"
            ELSE IF \/ \E rp \in role_permissions : rp.role_id = role_id
                    \/ \E ur \in user_roles : ur.role_id = role_id
            THEN "IntegrityError"
            ELSE "True"
    IN
    /\ roles' = IF result = "True"
                THEN [id \in (DOMAIN roles) \ {role_id} |-> roles[id]]
                ELSE roles
    /\ resp' = Resp("delete_role", result, NoId, role_id, <<>>)
    /\ UNCHANGED <<now, requests, store, cache, issued, ghost, role_permissions,
                   user_roles, perm_cache>>

\* ------------------------------------------------------ PermissionCache
PERMISSION_TTL_MINUTES == PERMISSION_TTL \div 60

\* Python values on their way through Redis: None, a str holding the JSON text
\* of a list of permission names, and the list itself
PyNone == [kind |-> "None", value |-> {}]
PyJsonStr(names) == [kind |-> "str", value |-> names]
PyList(names) == [kind |-> "list", value |-> names]

\* json.dumps(list(permissions))
json_dumps(names) == PyJsonStr(names)

\* json.loads(x): the list a JSON text holds, TypeError for an argument that
\* is not a str
json_loads(x) ==
    IF x.kind = "str"
    THEN [raised |-> "none", value |-> PyList(x.value)]
    ELSE [raised |-> "TypeError", value |-> PyNone]

\* Python truth value: None and the empty list are false, a JSON text is never
\* the empty string
truthy(x) ==
    CASE x.kind = "None" -> FALSE
      [] x.kind = "list" -> x.value # {}
      [] OTHER -> TRUE

\* RedisCache.get(key): the stored text run through json.loads, the text itself
\* when it does not decode
redis_get(keys, k) ==
    IF ~redis_hit(keys, k)
    THEN PyNone
    ELSE LET decoded == json_loads(keys[k].data) IN
         IF decoded.raised = "none" THEN decoded.value ELSE keys[k].data

\* PermissionCache.get_user_permissions: a second json.loads of what
\* RedisCache.get returned, every exception answered with None
cached_permissions(user_id, agency_id) ==
    LET value == redis_get(perm_cache, <<user_id, agency_id>>) IN
    IF ~truthy(value)
    THEN [cached |-> FALSE, permissions |-> {}]
    ELSE LET decoded == json_loads(value) IN
         IF decoded.raised = "none"
         THEN [cached |-> TRUE, permissions |-> decoded.value.value]
         ELSE [cached |-> FALSE, permissions |-> {}]

\* PermissionCache.set_user_permissions: RedisCache.set writes str(value) of a
\* value that is already a str
set_user_permissions(keys, user_id, agency_id, permissions) ==
    redis_set(keys, <<user_id, agency_id>>, json_dumps(permissions),
              PERMISSION_TTL_MINUTES)

\* require_permission(...).check_permission up to the membership test: the
\* permission set it decides on, where it came from, the cache afterwards
require_permission_eval_fail_closed(user_id, agency_id) ==
    LET c == cached_permissions(user_id, agency_id) IN
    IF c.cached \/ ~redis_connected
    THEN [permissions |-> c.permissions, cached |-> c.cached, perm_cache |-> perm_cache]
    ELSE LET permissions == get_user_permissions(user_id, agency_id, FALSE) IN
         [permissions |-> permissions, cached |-> FALSE,
          perm_cache |-> set_user_permissions(perm_cache, user_id, agency_id,
                                              permissions)]
require_permission_eval(user_id, agency_id) ==
    LET c == cached_permissions(user_id, agency_id) IN
    IF c.cached
    THEN [permissions |-> c.permissions, cached |-> TRUE, perm_cache |-> perm_cache]
    ELSE LET permissions == get_user_permissions(user_id, agency_id, FALSE) IN
         [permissions |-> permissions, cached |-> FALSE,
          perm_cache |-> set_user_permissions(perm_cache, user_id, agency_id,
                                              permissions)]

\* require_permission(permission_name), run for an authenticated active user;
\* agency_id = NoAgency stands for a request that names no agency
require_permission(user_id, agency_id, permission_name) ==
    /\ user_id \in DOMAIN auth_users
    /\ auth_users[user_id].is_active
    /\ IF agency_id = NoAgency
       THEN /\ resp' = Resp("require_permission", "400", user_id, agency_id, <<>>)
            /\ UNCHANGED perm_cache
       ELSE LET r == require_permission_eval(user_id, agency_id) IN
            /\ perm_cache' = r.perm_cache
            /\ resp' = Resp("require_permission",
                            IF permission_name \in r.permissions THEN "200" ELSE "403",
                            user_id, agency_id,
                            <<IF r.cached THEN "hit" ELSE "miss">>)
    /\ UNCHANGED <<now, requests, store, redis_connected, ratelimit, user_cache, blacklist,
                   issued, ghost, rbac_store>>

\* ------------------------------------------------------ lockout behaviours
NextLock ==
    \/ \E email \in Emails, password \in Passwords : login(email, password)
    \/ \E reset_token \in ResetRaws, new_password \in Passwords :
           reset_password(reset_token, new_password)
    \/ Tick

\* user 2 has deactivated the account (POST /me/deactivate) before
InitLock ==
    /\ now = 0
    /\ auth_users = [InitUsers EXCEPT ![2].is_active = FALSE]
    /\ refresh_tokens = InitRefreshTokens
    /\ password_reset_tokens = [id \in {1} |-> InitResetTokens[id]]
    /\ email_verification_tokens = InitVerifyTokens
    /\ redis_connected = TRUE
    /\ user_cache = EmptyMap
    /\ blacklist = EmptyMap
    /\ issued = EmptyMap
    /\ resp = NoResp
    /\ login_fail_run = [id \in UserIds |-> 0]
    /\ fail_run = [id \in UserIds |-> 0]
    /\ fail_at = [id \in UserIds |-> None]
    /\ requests = NoRequests
    /\ roles = InitRoles
    /\ role_permissions = InitRolePermissions
    /\ user_roles = {}
    /\ perm_cache = EmptyMap
    /\ ratelimit = EmptyMap

SpecLock == InitLock /\ [][NextLock]_vars

\* C1 as claimed: for an existing, active user, after MAX_FAILED_ATTEMPTS
\* consecutive failed login calls every following login call, whatever the
\* password, fails with AccountLockedError until the lockout has elapsed.
C1_Original ==
    [][\A email \in Emails, password \in Passwords :
        LET uid == user_by_email(lower(email)) IN
        (/\ login(email, password)
         /\ uid # NoId
         /\ auth_users[uid].is_active
         /\ login_fail_run[uid] >= MAX_FAILED_ATTEMPTS
         /\ now < fail_at[uid] + LOCKOUT_DURATION_MINUTES)
        => resp'.result = "AccountLockedError"]_vars

\* C1 (amended): for an existing, active user, once MAX_FAILED_ATTEMPTS
\* password checks have failed in a row since the last successful login or
\* password reset, every following login call, whatever the password, fails
\* with AccountLockedError carrying the unlock time, until the lockout set by
\* the last of these failures has elapsed or a password reset has cleared it.
C1_LockoutAfterMaxFailures ==
    [][\A email \in Emails, password \in Passwords :
        LET uid == user_by_email(lower(email)) IN
        (/\ login(email, password)
         /\ uid # NoId
         /\ auth_users[uid].is_active
         /\ fail_run[uid] >= MAX_FAILED_ATTEMPTS
         /\ now < fail_at[uid] + LOCKOUT_DURATION_MINUTES)
        => (/\ resp'.result = "AccountLockedError"
            /\ resp'.info = fail_at[uid] + LOCKOUT_DURATION_MINUTES)]_vars

\* a login with the correct password was refused as locked, some time after
\* the fifth failure
C1_Witness ==
    /\ resp.op = "login"
    /\ resp.result = "AccountLockedError"
    /\ fail_run[resp.user] = MAX_FAILED_ATTEMPTS
    /\ now > fail_at[resp.user]
    /\ verify_password(resp.arg, auth_users[resp.user].password_hash)

\* the part of an outcome the caller and the store can observe
Observable(r) ==
    [result |-> r.resp.result, user |-> r.resp.user, info |-> r.resp.info,
     auth_users |-> r.auth_users, refresh_tokens |-> r.refresh_tokens]

\* C2: while locked_until is in the future, login answers AccountLockedError
\* with the unlock time for every password, and leaves the user row
\* (failed_login_attempts, locked_until, last_login_at) and the refresh-token
\* table as they are: outcome and state do not depend on the password.
C2_LockedLoginIgnoresPassword ==
    \A email \in Emails :
        LET uid == user_by_email(lower(email)) IN
        (/\ uid # NoId
         /\ auth_users[uid].locked_until # None
         /\ auth_users[uid].locked_until > now)
        => \A p \in Passwords, q \in Passwords :
              /\ Observable(login_eval(email, p)) = Observable(login_eval(email, q))
              /\ login_eval(email, p).resp.result = "AccountLockedError"
              /\ login_eval(email, p).resp.info = auth_users[uid].locked_until
              /\ login_eval(email, p).auth_users = auth_users
              /\ login_eval(email, p).refresh_tokens = refresh_tokens

\* a locked account was tried with a wrong password and is still locked
C2_Witness ==
    /\ resp.op = "login"
    /\ resp.result = "AccountLockedError"
    /\ ~verify_password(resp.arg, auth_users[resp.user].password_hash)
    /\ auth_users[resp.user].locked_until > now
    /\ auth_users[resp.user].last_login_at # None

\* ------------------------------------------------- opaque-token behaviours
InitTok ==
    /\ now = 0
    /\ auth_users = InitUsers
    /\ refresh_tokens = InitRefreshTokens
    /\ password_reset_tokens = [id \in {1} |-> InitResetTokens[id]]
    /\ email_verification_tokens = [id \in {2} |-> InitVerifyTokens[id]]
    /\ redis_connected = TRUE
    /\ user_cache = EmptyMap
    /\ blacklist = EmptyMap
    /\ issued = EmptyMap
    /\ resp = NoResp
    /\ login_fail_run = [id \in UserIds |-> 0]
    /\ fail_run = [id \in UserIds |-> 0]
    /\ fail_at = [id \in UserIds |-> None]
    /\ requests = NoRequests
    /\ roles = InitRoles
    /\ role_permissions = InitRolePermissions
    /\ user_roles = {}
    /\ perm_cache = EmptyMap
    /\ ratelimit = EmptyMap

NextTok ==
    \/ \E refresh_token \in RefreshRaws : refresh_access_token(refresh_token)
    \/ \E refresh_token \in RefreshRaws : logout(refresh_token)
    \/ \E user_id \in UserIds : logout_all_devices(user_id)
    \/ \E reset_token \in ResetRaws, new_password \in {PwNew, PwWeak} :
           reset_password(reset_token, new_password)
    \/ \E verification_token \in VerifyRaws : verify_email(verification_token)
    \/ Tick

SpecTok == InitTok /\ [][NextTok]_vars

\* the refresh-token rows of a user, and the raw token behind a row
TokensOf(uid) == {id \in DOMAIN refresh_tokens : refresh_tokens[id].user_id = uid}
RevokedOrInvalid == {"InvalidTokenError", "RefreshTokenRevokedError"}

\* C3: when reset_password succeeds for user U, every refresh-token row of U
\* is revoked (flag and timestamp) whether or not it had expired, the rows of
\* the other users are left as they were, and in every state
\* refresh_access_token fails with a revoked/invalid error for the raw token
\* of every revoked row.
C3_ResetRevokesAllRefreshTokens ==
    [][/\ \A reset_token \in ResetRaws, new_password \in Passwords :
            (reset_password(reset_token, new_password) /\ resp'.result = "ok")
            => /\ \A id \in TokensOf(resp'.user) :
                    /\ refresh_tokens'[id].is_revoked
                    /\ refresh_tokens'[id].revoked_at # None
               /\ \A id \in DOMAIN refresh_tokens \ TokensOf(resp'.user) :
                    refresh_tokens'[id] = refresh_tokens[id]
       /\ \A id \in DOMAIN refresh_tokens :
            refresh_tokens'[id].is_revoked
            => (refresh_result(RefreshRaw(id)) \in RevokedOrInvalid)']_vars

\* after a password reset of user 1, a refresh token of user 1 that had not
\* expired was refused, while the token of user 2 is still good
C3_Witness ==
    /\ resp.op = "refresh_access_token"
    /\ resp.result = "InvalidTokenError"
    /\ resp.arg = RefreshRaw(1)
    /\ password_reset_tokens[1].used_at # None
    /\ refresh_tokens[1].revoked_at = password_reset_tokens[1].used_at
    /\ refresh_tokens[2].is_revoked
    /\ refresh_tokens[1].expires_at > now
    /\ refresh_result(RefreshRaw(3)) = "ok"

\* the raw token belongs to a consumed row of the table
ConsumedReset(reset_token) ==
    \E id \in DOMAIN password_reset_tokens :
        /\ password_reset_tokens[id].token_hash = hash_password(PyStr(reset_token)).hash
        /\ password_reset_tokens[id].used_at # None
ConsumedVerify(verification_token) ==
    \E id \in DOMAIN email_verification_tokens :
        /\ email_verification_tokens[id].token_hash =
               hash_password(PyStr(verification_token)).hash
        /\ email_verification_tokens[id].verified_at # None

\* C4 as claimed: every reset_password / verify_email call that presents a
\* consumed token fails with InvalidTokenError.
C4_Original ==
    [][/\ \A reset_token \in ResetRaws, new_password \in Passwords :
            (reset_password(reset_token, new_password) /\ ConsumedReset(reset_token))
            => resp'.result = "InvalidTokenError"
       /\ \A verification_token \in VerifyRaws :
            (verify_email(verification_token) /\ ConsumedVerify(verification_token))
            => resp'.result = "InvalidTokenError"]_vars

\* C4 (amended): a call that presents a consumed token fails, expired or not,
\* and changes neither store nor cache: verify_email with InvalidTokenError,
\* reset_password with InvalidTokenError when the new password passes the
\* strength policy and with the validation error (raised before the token is
\* looked up) when it does not.
C4_ConsumedTokenRejected ==
    [][/\ \A reset_token \in ResetRaws, new_password \in Passwords :
            (reset_password(reset_token, new_password) /\ ConsumedReset(reset_token))
            => /\ resp'.result =
                     IF check_password_strength(new_password)
                     THEN "InvalidTokenError" ELSE "ValueError"
               /\ UNCHANGED <<store, cache>>
       /\ \A verification_token \in VerifyRaws :
            (verify_email(verification_token) /\ ConsumedVerify(verification_token))
            => /\ resp'.result = "InvalidTokenError"
               /\ UNCHANGED <<store, cache>>]_vars

\* a reset token was used, presented again before its expiry and refused
C4_Witness ==
    /\ resp.op = "reset_password"
    /\ resp.result = "InvalidTokenError"
    /\ resp.arg = ResetRaw(1)
    /\ password_reset_tokens[1].used_at # None
    /\ password_reset_tokens[1].expires_at > now

\* ------------------------------------------------- access-token behaviours
BearerTokens == (DOMAIN issued) \cup {Forged, NoHeader}

\* the raw refresh tokens clients present: one device per user, one unknown
JwtRaws == {RefreshRaw(1), RefreshRaw(3), UnknownRaw}

InitJwt ==
    /\ now = 0
    /\ auth_users = InitUsers
    /\ refresh_tokens = [id \in {1, 3} |-> InitRefreshTokens[id]]
    /\ password_reset_tokens = InitResetTokens
    /\ email_verification_tokens = InitVerifyTokens
    /\ redis_connected = TRUE
    /\ user_cache = EmptyMap
    /\ blacklist = EmptyMap
    /\ issued = EmptyMap
    /\ resp = NoResp
    /\ login_fail_run = [id \in UserIds |-> 0]
    /\ fail_run = [id \in UserIds |-> 0]
    /\ fail_at = [id \in UserIds |-> None]
    /\ requests = NoRequests
    /\ roles = InitRoles
    /\ role_permissions = InitRolePermissions
    /\ user_roles = {}
    /\ perm_cache = EmptyMap
    /\ ratelimit = EmptyMap

NextJwt ==
    \/ \E refresh_token \in JwtRaws : refresh_access_token(refresh_token)
    \/ \E refresh_token \in JwtRaws : logout(refresh_token)
    \/ \E token \in BearerTokens, refresh_token \in JwtRaws :
           logout_endpoint(token, refresh_token)
    \/ \E token \in BearerTokens : get_me(token)
    \/ \E jti \in DOMAIN issued : blacklist_token(jti, JWT_ACCESS_TOKEN_EXPIRE_MINUTES)
    \/ redis_outage
    \/ connect
    \/ Tick

SpecJwt == InitJwt /\ [][NextJwt]_vars

\* ------------------------------------------------- concurrent behaviours
NextConc ==
    \/ \E r \in Requests, reset_token \in ResetRaws, new_password \in {PwNew, PwWeak} :
           reset_password_select(r, reset_token, new_password)
    \/ \E r \in Requests : reset_password_commit(r)
    \/ \E r \in Requests, verification_token \in VerifyRaws :
           verify_email_select(r, verification_token)
    \/ \E r \in Requests : verify_email_commit(r)
    \/ Tick

SpecConc == Init /\ [][NextConc]_vars

\* C5: of the reset_password (or verify_email) requests that present the same
\* single-use token, at most one succeeds, however their steps interleave.
C5_SingleUseUnderConcurrency ==
    \A r1 \in Requests, r2 \in Requests :
        (/\ r1 # r2
         /\ requests[r1].op = requests[r2].op
         /\ requests[r1].token = requests[r2].token
         /\ requests[r1].result = "ok")
        => requests[r2].result # "ok"

\* C6: when POST /logout answers 200 for a refresh token that matches a live
\* row, that row has its revoked flag and revocation timestamp set and
\* refresh_access_token no longer accepts the token.
C6_EndpointLogoutRevokes ==
    [][\A token \in BearerTokens, refresh_token \in JwtRaws :
        (/\ logout_endpoint(token, refresh_token)
         /\ resp'.result = "200"
         /\ refresh_matches(refresh_token) # {})
        => /\ \A id \in refresh_matches(refresh_token) :
                /\ refresh_tokens'[id].is_revoked
                /\ refresh_tokens'[id].revoked_at # None
           /\ refresh_result(refresh_token)' # "ok"]_vars

\* the raw token matches no row that is neither revoked nor expired: it was
\* logged out before, or nobody holds it
NoLiveRow(refresh_token) ==
    \A id \in DOMAIN refresh_tokens :
        refresh_tokens[id].token_hash = hash_password(PyStr(refresh_token)).hash
        => (refresh_tokens[id].is_revoked \/ refresh_tokens[id].expires_at <= now)

\* C7: logout always returns success, and a logout with a token that was
\* logged out before, or that matches no row, changes neither store nor
\* cache; POST /logout answers an authenticated caller 200 every time and in
\* the same cases leaves the store as it is.
C7_LogoutIdempotent ==
    [][/\ \A refresh_token \in JwtRaws :
            logout(refresh_token)
            => /\ resp'.result = "ok"
               /\ NoLiveRow(refresh_token) => UNCHANGED <<store, cache>>
       /\ \A token \in BearerTokens, refresh_token \in JwtRaws :
            (logout_endpoint(token, refresh_token) /\ authenticate(token).status = "ok")
            => /\ resp'.result = "200"
               /\ NoLiveRow(refresh_token) => UNCHANGED store]_vars

\* the second logout with the token of row 1, before the token expires,
\* succeeded and revoked nothing
C7_Witness ==
    /\ resp.op = "logout"
    /\ resp.result = "ok"
    /\ resp.arg = RefreshRaw(1)
    /\ resp.info = 0
    /\ refresh_tokens[1].is_revoked
    /\ refresh_tokens[1].revoked_at < now
    /\ refresh_tokens[1].expires_at > now

\* C8: when POST /logout answers 200, the access token of the request has a
\* blacklist entry under its jti and no longer authenticates a request.
C8_LogoutBlacklistsAccessToken ==
    [][\A token \in DOMAIN issued, refresh_token \in JwtRaws :
        (logout_endpoint(token, refresh_token) /\ resp'.result = "200")
        => /\ issued[token].jti \in DOMAIN blacklist'
           /\ authenticate(token)'.status # "ok"]_vars

\* C9: while the cache is unreachable, verify_token accepts no access token
\* and no request is authenticated.
C9_BlacklistCheckFailsClosed ==
    ~redis_connected
    => \A token \in DOMAIN issued :
          /\ verify_token(token) # "ok"
          /\ authenticate(token).status # "ok"

\* C10: an access token with a valid signature and expiry whose jti has a
\* blacklist entry is refused by verify_token (InvalidTokenError), by
\* get_current_user (401) and by the middleware (401).
C10_BlacklistedTokenRejected ==
    \A token \in DOMAIN issued :
        (/\ jwt_decode(token) = "ok"
         /\ issued[token].jti \in DOMAIN blacklist
         /\ blacklist[issued[token].jti].expires > now)
        => /\ verify_token(token) = "InvalidTokenError"
           /\ get_current_user(token).status = "401"
           /\ dispatch(token) = "401"

\* ------------------------------------------------------ RBAC behaviours
\* the (user, role, agency) triples the role operations are called with; user
\* 3 does not exist
Grants == {<<1, 1, 1>>, <<1, 1, 2>>, <<1, 2, 2>>, <<2, 1, 1>>}
NoSuchUser == 3

NextRbac ==
    \/ \E g \in Grants \cup {<<NoSuchUser, 1, 1>>}, expires_at \in {None, ClockStep} :
           assign_role(g[1], g[2], g[3], expires_at)
    \/ \E g \in Grants : revoke_role(g[1], g[2], g[3])
    \/ \E role_id \in RoleIds : assign_permission_to_role(role_id, "contacts.view")
    \/ \E role_id \in RoleIds : revoke_permission_from_role(role_id, "contacts.view")
    \/ \E permission_ids \in {{}, {"contacts.edit"}} :
           set_role_permissions(2, permission_ids)
    \/ \E role_id \in RoleIds : delete_role(role_id)
    \/ Tick

SpecRbac == Init /\ [][NextRbac]_vars

\* ------------------------------------------------------ permission-cache behaviours
NextPerm ==
    \/ \E u \in UserIds : assign_role(u, 1, 1, None)
    \/ \E u \in UserIds : revoke_role(u, 1, 1)
    \/ assign_permission_to_role(1, "contacts.view")
    \/ revoke_permission_from_role(1, "contacts.view")
    \/ set_role_permissions(1, {"contacts.edit"})
    \/ delete_role(2)
    \/ \E u \in UserIds, agency_id \in {1, NoAgency} :
           require_permission(u, agency_id, "contacts.view")
    \/ Tick

SpecPerm == Init /\ [][NextPerm]_vars

\* ------------------------------------------------------ claims on the permission cache
\* C11: when assign_role or revoke_role has changed the roles user U holds in
\* tenant T, the cache holds no permission entry of (U, T) afterwards, so the
\* next cache-first read of (U, T) resolves the set from the store.
C11_RoleChangeInvalidatesEntry ==
    [][(/\ resp'.op \in {"assign_role", "revoke_role"}
        /\ user_roles' # user_roles)
       => <<resp'.user, resp'.info>> \notin DOMAIN perm_cache']_vars

\* C12: when the permissions of a role have changed or the role has been
\* deleted, the cache holds no permission entry of any (user, tenant) that
\* holds the role afterwards.
C12_RoleChangeInvalidatesHolders ==
    [][(role_permissions' # role_permissions \/ roles' # roles)
       => \A ur \in user_roles :
              ur.role_id = resp'.info
              => <<ur.user_id, ur.agency_id>> \notin DOMAIN perm_cache']_vars

\* ------------------------------------------------------ claims on PermissionService
RoleNames == {roles[id].name : id \in DOMAIN roles}

\* C13: tenant isolation.  assign_role and revoke_role called for tenant T1
\* leave get_user_permissions(u, T2), get_user_roles(u, T2) and
\* has_role(u, T2, .) as they were, for every user u and every tenant T2 # T1.
C13_TenantIsolation ==
    [][\A g \in Grants \cup {<<NoSuchUser, 1, 1>>}, expires_at \in {None, ClockStep} :
           (assign_role(g[1], g[2], g[3], expires_at) \/ revoke_role(g[1], g[2], g[3]))
           => \A u \in UserIds, T2 \in Agencies \ {g[3]} :
                  /\ get_user_permissions(u, T2, FALSE)' = get_user_permissions(u, T2, FALSE)
                  /\ get_user_permissions(u, T2, TRUE)' = get_user_permissions(u, T2, TRUE)
                  /\ get_user_roles(u, T2, FALSE)' = get_user_roles(u, T2, FALSE)
                  /\ \A name \in RoleNames :
                         has_role(u, T2, name)' = has_role(u, T2, name)]_vars

\* revoke_role took a role from a user in one tenant while the user holds
\* permissions in the other
C13_Witness ==
    /\ resp.op = "revoke_role"
    /\ resp.result = "True"
    /\ get_user_permissions(resp.user, resp.info, FALSE) = {}
    /\ \E T2 \in Agencies \ {resp.info} :
           get_user_permissions(resp.user, T2, FALSE) # {}

\* the roles a user holds in a tenant through an assignment that has no expiry
\* or expires in the future
ActiveRoles(u, T) ==
    {r \in RoleIds :
        \E ur \in user_roles :
            /\ ur.user_id = u
            /\ ur.agency_id = T
            /\ ur.role_id = r
            /\ (ur.expires_at = None \/ ur.expires_at > now)}
PermissionsOfRole(r) == {p \in Permissions : NewRolePermission(r, p) \in role_permissions}

\* C14: get_user_permissions(u, T) is the union of the permissions of the
\* roles u holds in T through an assignment that has not expired, and
\* has_role(u, T, name) holds for exactly those roles; expired assignments
\* contribute neither a permission nor a role.
C14_PermissionsAreUnionOfActiveRoles ==
    \A u \in UserIds, T \in Agencies :
        /\ get_user_permissions(u, T, FALSE)
               = UNION {PermissionsOfRole(r) : r \in ActiveRoles(u, T)}
        /\ get_user_roles(u, T, FALSE) = ActiveRoles(u, T)
        /\ \A r \in DOMAIN roles :
               has_role(u, T, roles[r].name) <=> r \in ActiveRoles(u, T)
        /\ (ActiveRoles(u, T) = {}
               => /\ get_user_permissions(u, T, FALSE) = {}
                  /\ \A name \in RoleNames : ~has_role(u, T, name))

\* a user whose only assignment in a tenant has expired, to a role that
\* carries permissions
C14_Witness ==
    \E u \in UserIds, T \in Agencies :
        /\ ActiveRoles(u, T) = {}
        /\ \E ur \in user_roles :
               /\ ur.user_id = u
               /\ ur.agency_id = T
               /\ ur.expires_at # None
               /\ ur.expires_at <= now
               /\ PermissionsOfRole(ur.role_id) # {}
        /\ get_user_permissions(u, T, TRUE) # {}
        /\ get_user_permissions(u, T, FALSE) = {}

\* ------------------------------------------------------ claims on refresh tokens
\* C15: refresh_access_token does not rotate.  A successful exchange leaves
\* store and cache as they were and the same raw token is good for another
\* exchange; a raw token stops being exchangeable only when its row is revoked
\* or has reached its expiry.
C15_RefreshDoesNotRotate ==
    [][/\ \A refresh_token \in RefreshRaws :
            (refresh_access_token(refresh_token) /\ resp'.result = "ok")
            => /\ store' = store
               /\ cache' = cache
               /\ (refresh_result(refresh_token) = "ok")'
       /\ \A id \in DOMAIN refresh_tokens :
            (/\ refresh_result(RefreshRaw(id)) = "ok"
             /\ (refresh_result(RefreshRaw(id)) # "ok")')
            => \/ refresh_tokens'[id].is_revoked
               \/ refresh_tokens'[id].expires_at <= now']_vars

\* a raw token has just been exchanged for an access token and is good for a
\* further exchange
C15_Witness ==
    /\ resp.op = "refresh_access_token"
    /\ resp.result = "ok"
    /\ issued # EmptyMap
    /\ refresh_result(resp.arg) = "ok"
    /\ \E id \in DOMAIN refresh_tokens :
           /\ resp.arg = RefreshRaw(id)
           /\ ~refresh_tokens[id].is_revoked
           /\ refresh_tokens[id].revoked_at = None

\* the rows of refresh_tokens whose hash matches the raw token, whatever their
\* state
MatchingRecords(refresh_token) ==
    {id \in DOMAIN refresh_tokens :
        verify_password(refresh_token, refresh_tokens[id].token_hash)}

\* C16: refresh_access_token fails with InvalidTokenError when no record
\* matches the raw token, with RefreshTokenRevokedError when the matching
\* record is revoked and with TokenExpiredError when it is past its expiry.
C16_RefreshFailuresDistinguished ==
    \A refresh_token \in RefreshRaws :
        /\ MatchingRecords(refresh_token) = {}
               => refresh_result(refresh_token) = "InvalidTokenError"
        /\ \A id \in MatchingRecords(refresh_token) :
               /\ refresh_tokens[id].is_revoked
                      => refresh_result(refresh_token) = "RefreshTokenRevokedError"
               /\ (~refresh_tokens[id].is_revoked /\ refresh_tokens[id].expires_at <= now)
                      => refresh_result(refresh_token) = "TokenExpiredError"

\* C17: logout_all_devices(user_id) leaves every refresh token of the user
\* revoked, those it revoked itself stamped with the time of the call, so that
\* refresh_access_token refuses each of them, and leaves the refresh tokens of
\* every other user as they were.
C17_LogoutAllRevokesOwnTokensOnly ==
    [][\A user_id \in UserIds :
           logout_all_devices(user_id)
           => /\ \A id \in TokensOf(user_id) :
                    /\ refresh_tokens'[id].is_revoked
                    /\ refresh_tokens'[id].revoked_at # None
                    /\ ~refresh_tokens[id].is_revoked
                           => refresh_tokens'[id].revoked_at = now
                    /\ (refresh_result(RefreshRaw(id)) # "ok")'
              /\ \A id \in DOMAIN refresh_tokens \ TokensOf(user_id) :
                    refresh_tokens'[id] = refresh_tokens[id]]_vars

\* logout_all_devices has just revoked two live tokens of one user, one of
\* them far from its expiry, and the token of the other user is still good
C17_Witness ==
    /\ resp.op = "logout_all_devices"
    /\ \E id1, id2 \in TokensOf(resp.user) :
           /\ id1 # id2
           /\ refresh_tokens[id1].revoked_at = now
           /\ refresh_tokens[id2].revoked_at = now
           /\ refresh_tokens[id1].expires_at > now
           /\ refresh_result(RefreshRaw(id1)) = "InvalidTokenError"
    /\ \E id \in DOMAIN refresh_tokens \ TokensOf(resp.user) :
           refresh_result(RefreshRaw(id)) = "ok"

\* ------------------------------------------------------ lockout expiry
\* user 1 failed MAX_FAILED_ATTEMPTS password checks in a row, the last of
\* them LOCKOUT_DURATION_MINUTES before ClockStep, and is locked until then
InitRelock ==
    /\ now = 0
    /\ auth_users = [InitUsers EXCEPT ![1].failed_login_attempts = MAX_FAILED_ATTEMPTS,
                                      ![1].locked_until = ClockStep,
                                      ![2].is_active = FALSE]
    /\ refresh_tokens = InitRefreshTokens
    /\ password_reset_tokens = [id \in {1} |-> InitResetTokens[id]]
    /\ email_verification_tokens = InitVerifyTokens
    /\ redis_connected = TRUE
    /\ user_cache = EmptyMap
    /\ blacklist = EmptyMap
    /\ issued = EmptyMap
    /\ resp = NoResp
    /\ login_fail_run = [id \in UserIds |-> IF id = 1 THEN MAX_FAILED_ATTEMPTS ELSE 0]
    /\ fail_run = [id \in UserIds |-> IF id = 1 THEN MAX_FAILED_ATTEMPTS ELSE 0]
    /\ fail_at = [id \in UserIds |->
                    IF id = 1 THEN ClockStep - LOCKOUT_DURATION_MINUTES ELSE None]
    /\ requests = NoRequests
    /\ roles = InitRoles
    /\ role_permissions = InitRolePermissions
    /\ user_roles = {}
    /\ perm_cache = EmptyMap
    /\ ratelimit = EmptyMap

SpecRelock == InitRelock /\ [][NextLock]_vars

\* C18: an account is UNLOCKED, then LOCKED, then UNLOCKED again by lockout
\* expiry, successful login or password reset, and from every UNLOCKED state
\* it takes MAX_FAILED_ATTEMPTS failed password checks in a row to lock it
\* again.  No password is checked while the account is LOCKED and the run of
\* failures restarts at a successful login or password reset, so a failed
\* check may lock the account exactly when the length of that run is a
\* multiple of MAX_FAILED_ATTEMPTS.
C18_LockTakesMaxFailuresFromUnlocked ==
    [][\A email \in Emails, password \in Passwords :
        LET uid == user_by_email(lower(email)) IN
        (/\ login(email, password)
         /\ uid # NoId
         /\ ~is_locked(auth_users[uid]))
        => ((/\ auth_users'[uid].locked_until # None
             /\ auth_users'[uid].locked_until > now')
            <=> (/\ resp'.result = "InvalidCredentialsError"
                 /\ fail_run'[uid] % MAX_FAILED_ATTEMPTS = 0))]_vars

\* the login call reaches the password check and the password is right
PasswordAccepted(uid, password) ==
    /\ ~is_locked(auth_users[uid])
    /\ auth_users[uid].is_active
    /\ verify_password(password, auth_users[uid].password_hash)

\* C19: a login whose password check passes leaves failed_login_attempts = 0
\* and locked_until = NULL, and only failures in a row lock: whenever an
\* account is locked or a login sets a new lockout, at least
\* MAX_FAILED_ATTEMPTS password checks have failed since the last successful
\* login or password reset of the account.
C19_OnlyConsecutiveFailuresLock ==
    [][/\ \A email \in Emails, password \in Passwords :
            LET uid == user_by_email(lower(email)) IN
            (login(email, password) /\ uid # NoId)
            => /\ PasswordAccepted(uid, password)
                    => /\ auth_users'[uid].failed_login_attempts = 0
                       /\ auth_users'[uid].locked_until = None
                       /\ fail_run'[uid] = 0
               /\ auth_users'[uid].locked_until \notin {None, auth_users[uid].locked_until}
                    => fail_run'[uid] >= MAX_FAILED_ATTEMPTS
       /\ \A uid \in UserIds :
            (auth_users'[uid].locked_until # None /\ auth_users'[uid].locked_until > now')
            => fail_run'[uid] >= MAX_FAILED_ATTEMPTS]_vars

\* a login with the right password, after an earlier failed password check of
\* the same account, has cleared the counter and the lockout
C19_Witness ==
    /\ resp.op = "login"
    /\ resp.user # NoId
    /\ verify_password(resp.arg, auth_users[resp.user].password_hash)
    /\ auth_users[resp.user].last_login_at = now
    /\ fail_at[resp.user] # None
    /\ fail_run[resp.user] = 0
    /\ auth_users[resp.user].failed_login_attempts = 0
    /\ auth_users[resp.user].locked_until = None

\* ------------------------------------------------------ access-token round trip
\* jwt.verify_token: the payload it returns when it raises nothing
verify_token_payload(token) == issued[token]

\* a caller of jwt.create_access_token(user_id, email)
issue_access_token(user_id, email) ==
    LET access_token == create_access_token(user_id, email) IN
    /\ Cardinality(DOMAIN issued) <= MaxAccessTokens
    /\ issued' = issue(access_token)
    /\ resp' = Resp("create_access_token", "ok", user_id, access_token.jti, email)
    /\ UNCHANGED <<now, requests, rbac, store, cache, ghost>>

\* a caller of jwt.verify_token(token)
verify_access_token(token) ==
    /\ resp' = Resp("verify_token", verify_token(token), NoId, token,
                    IF verify_token(token) = "ok"
                    THEN <<verify_token_payload(token)>> ELSE <<>>)
    /\ UNCHANGED <<now, requests, rbac, store, cache, issued, ghost>>

\* one access token of user 1 is in circulation, issued
\* JWT_ACCESS_TOKEN_EXPIRE_MINUTES before ClockStep
InitRound ==
    /\ now = 0
    /\ auth_users = InitUsers
    /\ refresh_tokens = InitRefreshTokens
    /\ password_reset_tokens = InitResetTokens
    /\ email_verification_tokens = InitVerifyTokens
    /\ redis_connected = TRUE
    /\ user_cache = EmptyMap
    /\ blacklist = EmptyMap
    /\ issued = [jti \in {1} |->
                    [sub |-> 1, email |-> EmailOf(1),
                     iat |-> ClockStep - JWT_ACCESS_TOKEN_EXPIRE_MINUTES,
                     exp |-> ClockStep, jti |-> jti, type |-> "access"]]
    /\ resp = NoResp
    /\ login_fail_run = [id \in UserIds |-> 0]
    /\ fail_run = [id \in UserIds |-> 0]
    /\ fail_at = [id \in UserIds |-> None]
    /\ requests = NoRequests
    /\ roles = InitRoles
    /\ role_permissions = InitRolePermissions
    /\ user_roles = {}
    /\ perm_cache = EmptyMap
    /\ ratelimit = EmptyMap

NextRound ==
    \/ \E user_id \in UserIds, email \in Emails : issue_access_token(user_id, email)
    \/ \E token \in BearerTokens \ {NoHeader} : verify_access_token(token)
    \/ \E jti \in DOMAIN issued : blacklist_token(jti, JWT_ACCESS_TOKEN_EXPIRE_MINUTES)
    \/ Tick

SpecRound == InitRound /\ [][NextRound]_vars

\* C20: verify_token(create_access_token(user_id, email)) returns claims with
\* sub = user_id, email = email and type = "access", from the moment of issue
\* for as long as the expiry has not been reached and the jti is not
\* blacklisted; once the expiry is reached it fails with TokenExpiredError.
C20_AccessTokenRoundTrip ==
    [][/\ \A user_id \in UserIds, email \in Emails :
            issue_access_token(user_id, email)
            => \A token \in 1..(MaxAccessTokens + 1) :
                   token = resp'.info
                   => /\ (verify_token(token) = "ok")'
                      /\ verify_token_payload(token)'.sub = user_id
                      /\ verify_token_payload(token)'.email = email
                      /\ verify_token_payload(token)'.type = "access"
                      /\ verify_token_payload(token)'.exp
                             = now + JWT_ACCESS_TOKEN_EXPIRE_MINUTES
       /\ \A token \in DOMAIN issued :
            /\ token \in DOMAIN issued'
            /\ verify_token_payload(token)' = verify_token_payload(token)
            /\ (now' < issued[token].exp /\ ~is_token_blacklisted(issued[token].jti)')
                   => (verify_token(token) = "ok")'
            /\ now' >= issued[token].exp
                   => (verify_token(token) = "TokenExpiredError")']_vars

\* a token issued for user 2 has been verified and the claims returned are
\* those it was issued with, while the token issued before it has reached its
\* expiry
C20_Witness ==
    /\ resp.op = "verify_token"
    /\ resp.result = "ok"
    /\ resp.arg = <<issued[resp.info]>>
    /\ issued[resp.info].sub = 2
    /\ issued[resp.info].email = EmailOf(2)
    /\ issued[resp.info].exp > now
    /\ \E token \in DOMAIN issued : verify_token(token) = "TokenExpiredError"

\* ------------------------------------------------------ permission cache and outages
NextFallback ==
    \/ NextPerm
    \/ redis_outage
    \/ connect

SpecFallback == Init /\ [][NextFallback]_vars

\* C21: when the cache holds no entry of (user, tenant) or Redis is not
\* reachable, the cache-first permission decision is taken on exactly the set
\* the store resolves, and the request is answered 200 or 403 by that set
\* alone.
C21_CacheMissFallsBackToStore ==
    /\ \A u \in UserIds, agency_id \in Agencies :
           (<<u, agency_id>> \notin DOMAIN perm_cache \/ ~redis_connected)
           => /\ ~require_permission_eval(u, agency_id).cached
              /\ require_permission_eval(u, agency_id).permissions
                     = get_user_permissions(u, agency_id, FALSE)
    /\ (resp.op = "require_permission" /\ resp.info # NoAgency)
           => resp.result \in {"200", "403"}

\* a guarded request was let through on the store's answer while Redis was
\* not reachable
C21_Witness ==
    /\ resp.op = "require_permission"
    /\ resp.result = "200"
    /\ resp.arg = <<"miss">>
    /\ ~redis_connected
    /\ <<resp.user, resp.info>> \notin DOMAIN perm_cache
    /\ "contacts.view" \in get_user_permissions(resp.user, resp.info, FALSE)

\* ------------------------------------------------------ role administration
\* the names roles are created with or renamed to; NoName is "no new name"
NewRoleNames == {"agent", "manager", "owner"}
NoName == ""

\* PermissionService.create_role
create_role(name, is_system_role, permission_ids) ==
    LET exists == \E id \in DOMAIN roles : roles[id].name = name
        role_id == NextId(roles)
    IN
    /\ roles' = IF exists
                THEN roles
                ELSE [id \in (DOMAIN roles) \cup {role_id} |->
                        IF id = role_id THEN NewRole(name, is_system_role) ELSE roles[id]]
    /\ role_permissions' =
           IF exists
           THEN role_permissions
           ELSE role_permissions \cup
                    {NewRolePermission(role_id, p) : p \in permission_ids}
    /\ resp' = Resp("create_role", IF exists THEN "InvalidInputError" ELSE "ok",
                    NoId, IF exists THEN NoId ELSE role_id, <<name>>)
    /\ UNCHANGED <<now, requests, store, cache, issued, ghost, user_roles, perm_cache>>

\* PermissionService.update_role: the error raised, "ok" if none
update_role_unguarded(role_id, name) ==
    IF role_id \notin DOMAIN roles THEN "ResourceNotFoundError"
    ELSE IF /\ name # NoName
            /\ name # roles[role_id].name
            /\ \E id \in DOMAIN roles : roles[id].name = name
    THEN "InvalidInputError"
    ELSE "ok"
update_role_result(role_id, name) ==
    IF role_id \notin DOMAIN roles THEN "ResourceNotFoundError"
    ELSE IF roles[role_id].is_system_role THEN "InvalidInputError"
    ELSE IF /\ name # NoName
            /\ name # roles[role_id].name
            /\ \E id \in DOMAIN roles : roles[id].name = name
    THEN "InvalidInputError"
    ELSE "ok"

\* PermissionService.update_role
update_role(role_id, name) ==
    /\ roles' = IF update_role_result(role_id, name) = "ok" /\ name # NoName
                THEN [roles EXCEPT ![role_id].name = name]
                ELSE roles
    /\ resp' = Resp("update_role", update_role_result(role_id, name), NoId, role_id,
                    <<name>>)
    /\ UNCHANGED <<now, requests, store, cache, issued, ghost, role_permissions,
                   user_roles, perm_cache>>

NoSuchRole == 5

NextRole ==
    \/ \E name \in NewRoleNames, is_system_role \in BOOLEAN,
          permission_ids \in {{}, {"contacts.view"}} :
           create_role(name, is_system_role, permission_ids)
    \/ \E role_id \in RoleIds \cup {3, 4, NoSuchRole}, name \in NewRoleNames \cup {NoName} :
           update_role(role_id, name)
    \/ \E role_id \in RoleIds \cup {3, 4, NoSuchRole} : delete_role(role_id)
    \/ \E role_id \in RoleIds \cup {3, 4} : set_role_permissions(role_id, {})
    \/ Tick

SpecRole == Init /\ [][NextRole]_vars

\* C22: system roles are immutable.  A role whose is_system_role is true is
\* still there, under the same name, after every step; update_role and
\* delete_role called on it fail with InvalidInputError and leave roles,
\* role_permissions and user_roles as they were.
C22_SystemRolesImmutable ==
    [][/\ \A id \in DOMAIN roles :
            roles[id].is_system_role
            => (id \in DOMAIN roles' /\ roles'[id] = roles[id])
       /\ \A role_id \in DOMAIN roles, name \in NewRoleNames \cup {NoName} :
            (roles[role_id].is_system_role
             /\ (update_role(role_id, name) \/ delete_role(role_id)))
            => (resp'.result = "InvalidInputError" /\ rbac_store' = rbac_store)]_vars

\* a rename of a system role that create_role had made, to a name no role
\* carries, was refused
C22_Witness ==
    /\ resp.op = "update_role"
    /\ resp.result = "InvalidInputError"
    /\ resp.info \in DOMAIN roles \ RoleIds
    /\ roles[resp.info].is_system_role
    /\ resp.arg # <<NoName>>
    /\ \A id \in DOMAIN roles : <<roles[id].name>> # resp.arg

\* the assignments of (user, role, tenant) that have not expired
ValidAssignments(u, r, a) ==
    {ur \in user_roles :
        /\ ur.user_id = u
        /\ ur.role_id = r
        /\ ur.agency_id = a
        /\ (ur.expires_at = None \/ ur.expires_at > now)}

\* C23: assign_role is idempotent for a still-valid assignment.  Called for a
\* triple that has a non-expired assignment it succeeds and adds no row, and
\* after every step there is at most one non-expired assignment row per
\* (user, role, tenant).
C23_AssignRoleIdempotent ==
    [][/\ \A g \in Grants, expires_at \in {None, ClockStep} :
            (assign_role(g[1], g[2], g[3], expires_at)
             /\ ValidAssignments(g[1], g[2], g[3]) # {})
            => (resp'.result = "ok" /\ user_roles' = user_roles)
       /\ \A g \in Grants : Cardinality(ValidAssignments(g[1], g[2], g[3]))' <= 1]_vars

\* assign_role was called with an expiry for a triple that has a permanent
\* assignment, returned that assignment and added nothing
C23_Witness ==
    /\ resp.op = "assign_role"
    /\ resp.result = "ok"
    /\ Len(resp.arg) = 2
    /\ resp.arg[1] = ClockStep
    /\ resp.arg[2].expires_at = None
    /\ resp.arg[2] \in user_roles
    /\ NewUserRole(resp.arg[2].user_id, resp.arg[2].role_id, resp.arg[2].agency_id,
                   ClockStep) \notin user_roles


\* ------------------------------------------------ agency context of a request
\* an agency_id string that is not a UUID
Malformed == 4

\* the places of a request that can name an agency; NoAgency stands for a
\* place that is empty (request.state without the attribute agency_id)
HttpRequest(path, query, state, method, body) ==
    [path |-> path, query |-> query, state |-> state, method |-> method,
     body |-> body]

HttpRequests ==
    {HttpRequest(NoAgency, NoAgency, NoAgency, "GET", NoAgency),
     HttpRequest(1, NoAgency, NoAgency, "GET", NoAgency),
     HttpRequest(NoAgency, 2, NoAgency, "GET", NoAgency),
     HttpRequest(1, 2, NoAgency, "GET", NoAgency),
     HttpRequest(NoAgency, Malformed, NoAgency, "GET", NoAgency),
     HttpRequest(NoAgency, Malformed, 1, "GET", NoAgency),
     HttpRequest(NoAgency, NoAgency, NoAgency, "GET", 2),
     HttpRequest(NoAgency, NoAgency, NoAgency, "POST", 2),
     HttpRequest(NoAgency, NoAgency, NoAgency, "POST", Malformed)}

\* extract_agency_id with agency 1 taken when the request names none
extract_agency_id_default_agency(request) ==
    IF request.path \in Agencies THEN request.path
    ELSE IF request.query \in Agencies THEN request.query
    ELSE IF request.state # NoAgency THEN request.state
    ELSE IF request.method \in {"POST", "PUT", "PATCH"} /\ request.body \in Agencies
         THEN request.body
    ELSE 1

\* extract_agency_id: path, then query, then request.state, then the JSON
\* body of a POST/PUT/PATCH; a malformed value falls through to the next place
extract_agency_id(request) ==
    IF request.path \in Agencies THEN request.path
    ELSE IF request.query \in Agencies THEN request.query
    ELSE IF request.state # NoAgency THEN request.state
    ELSE IF request.method \in {"POST", "PUT", "PATCH"} /\ request.body \in Agencies
         THEN request.body
    ELSE NoAgency

\* require_permission(permission_name).check_permission on a request
check_permission(user_id, request, permission_name) ==
    require_permission(user_id, extract_agency_id(request), permission_name)

\* require_role(role_name).check_role on a request of an authenticated active user
check_role(user_id, request, role_name) ==
    /\ user_id \in DOMAIN auth_users
    /\ auth_users[user_id].is_active
    /\ LET agency_id == extract_agency_id(request) IN
       resp' = Resp("require_role",
                    IF agency_id = NoAgency THEN "400"
                    ELSE IF has_role(user_id, agency_id, role_name) THEN "200"
                    ELSE "403",
                    user_id, agency_id, <<>>)
    /\ UNCHANGED <<now, requests, store, redis_connected, ratelimit, user_cache, blacklist,
                   issued, ghost, rbac_store, perm_cache>>

NextTenant ==
    \/ assign_role(1, 1, 1, None)
    \/ assign_role(2, 1, 2, None)
    \/ revoke_role(1, 1, 1)
    \/ \E u \in UserIds, request \in HttpRequests :
           check_permission(u, request, "contacts.view")
    \/ \E u \in UserIds, request \in HttpRequests : check_role(u, request, "agent")
    \/ Tick

SpecTenant == Init /\ [][NextTenant]_vars

\* a request that names no agency in any place extract_agency_id reads
NoTenant(request) ==
    /\ request.path \notin Agencies
    /\ request.query \notin Agencies
    /\ request.state = NoAgency
    /\ (request.method \notin {"POST", "PUT", "PATCH"} \/ request.body \notin Agencies)

\* C24: a permission or role dependency (require_permission, require_role)
\* run on a request that names no agency in its path, query, state or body
\* answers 400 and leaves the permission cache as it was, whatever the store
\* and the cache hold for the user; when the request names an agency, the
\* decision is taken for that agency and no other.
C24_NoTenantIsClientError ==
    [][\A u \in UserIds, request \in HttpRequests :
        /\ (/\ NoTenant(request)
            /\ \/ check_permission(u, request, "contacts.view")
               \/ check_role(u, request, "agent"))
           => (/\ resp'.result = "400"
               /\ perm_cache' = perm_cache)
        /\ (/\ ~NoTenant(request)
            /\ check_role(u, request, "agent"))
           => /\ resp'.info \in {request.path, request.query, request.state,
                                 request.body} \cap Agencies
              /\ resp'.result = IF has_role(u, resp'.info, "agent")
                                THEN "200" ELSE "403"]_vars

\* a user whom the store grants contacts.view in agency 1, with that grant
\* cached, was answered 400 on a request naming no agency
C24_Witness ==
    /\ resp.op = "require_permission"
    /\ resp.result = "400"
    /\ <<resp.user, 1>> \in DOMAIN perm_cache
    /\ "contacts.view" \in get_user_permissions(resp.user, 1, FALSE)

\* ------------------------------------------------------------ registration
\* the tables indexed by user id that the checks keep beside the store, with
\* an entry for a user who has just been created
with_user(f, uid, v) ==
    [x \in (DOMAIN f) \cup {uid} |-> IF x \in DOMAIN f THEN f[x] ELSE v]

\* register with the stored email compared as it was typed
register_eval_case_sensitive(email, password) ==
    LET same == [auth_users |-> auth_users, refresh_tokens |-> refresh_tokens,
                 user_cache |-> user_cache, issued |-> issued]
    IN
    IF user_by_email(email) # NoId
    THEN [resp |-> Resp("register", "UserAlreadyExistsError",
                        user_by_email(email), None, <<email, password>>)] @@ same
    ELSE IF ~check_password_strength(password)
    THEN [resp |-> Resp("register", "ValueError", NoId, None, <<email, password>>)]
         @@ same
    ELSE
        LET uid == NextId(auth_users)
            user == NewUser(lower(email), hash_password(PyStr(password)).hash)
        IN [resp |-> Resp("register", "AttributeError", uid, None, <<email, password>>),
            auth_users |-> with_user(auth_users, uid, user),
            user_cache |-> set_user(user_cache, uid, user)] @@ same

\* AuthService.register, as a function of the current state: the outcome and
\* the store, cache and token state it leaves
register_eval(email, password) ==
    LET existing_user == user_by_email(lower(email))
        same == [auth_users |-> auth_users, refresh_tokens |-> refresh_tokens,
                 user_cache |-> user_cache, issued |-> issued]
    IN
    IF existing_user # NoId
    THEN [resp |-> Resp("register", "UserAlreadyExistsError", existing_user, None,
                        <<email, password>>)] @@ same
    ELSE IF ~check_password_strength(password)
    THEN [resp |-> Resp("register", "ValueError", NoId, None, <<email, password>>)]
         @@ same
    ELSE
        LET uid == NextId(auth_users)
            user == NewUser(lower(email), hash_password(PyStr(password)).hash)
            committed == [auth_users |-> with_user(auth_users, uid, user),
                          user_cache |-> set_user(user_cache, uid, user)]
            access_token == create_access_token(uid, user.email)
            plain_refresh_token == create_refresh_token(FreshRaw)
            refresh_token_hash == hash_password(plain_refresh_token)
        IN
        IF refresh_token_hash.raised # ""
        THEN [resp |-> Resp("register", refresh_token_hash.raised, uid, None,
                            <<email, password>>)] @@ committed @@ same
        ELSE [resp |-> Resp("register", "ok", uid, access_token.jti,
                            <<email, password, plain_refresh_token>>),
              refresh_tokens |->
                  with_user(refresh_tokens, NextId(refresh_tokens),
                            NewRefreshToken(uid, refresh_token_hash.hash,
                                            now + RefreshLifetime)),
              issued |-> with_user(issued, access_token.jti, access_token)]
             @@ committed @@ same

\* AuthService.register
register(email, password) ==
    LET r == register_eval(email, password) IN
    /\ resp' = r.resp
    /\ auth_users' = r.auth_users
    /\ refresh_tokens' = r.refresh_tokens
    /\ user_cache' = r.user_cache
    /\ issued' = r.issued
    /\ IF r.resp.user \in DOMAIN r.auth_users
       THEN /\ login_fail_run' = with_user(login_fail_run, r.resp.user, 0)
            /\ fail_run' = with_user(fail_run, r.resp.user, 0)
            /\ fail_at' = with_user(fail_at, r.resp.user, None)
       ELSE UNCHANGED ghost
    /\ UNCHANGED <<now, requests, rbac, password_reset_tokens, email_verification_tokens,
                   redis_connected, ratelimit, blacklist>>

\* POST /register: the status the endpoint answers
register_status(result) ==
    CASE result = "ok" -> "201"
      [] result = "UserAlreadyExistsError" -> "409"
      [] result = "ValueError" -> "400"
      [] OTHER -> "500"

EmailNobodyUpper == <<"C", "@", "X">>
RegisterEmails == Emails \cup {EmailNobodyUpper}

NextReg ==
    \/ \E email \in RegisterEmails, password \in Passwords : register(email, password)
    \/ \E password \in {PwGood, PwNew} : login(EmailNobody, password)
    \/ refresh_access_token(FreshRaw)
    \/ redis_outage
    \/ connect
    \/ Tick

SpecReg == Init /\ [][NextReg]_vars

\* C25: register with an email that some user already has, compared without
\* regard to case, fails with UserAlreadyExistsError (409 at the endpoint)
\* for every password and leaves the users, the refresh tokens, the user
\* cache and the issued access tokens as they were.
C25_DuplicateEmailRejected ==
    \A email \in RegisterEmails, password \in Passwords :
        (\E id \in DOMAIN auth_users : lower(auth_users[id].email) = lower(email))
        => /\ register_eval(email, password).resp.result = "UserAlreadyExistsError"
           /\ register_status(register_eval(email, password).resp.result) = "409"
           /\ register_eval(email, password).auth_users = auth_users
           /\ register_eval(email, password).refresh_tokens = refresh_tokens
           /\ register_eval(email, password).user_cache = user_cache
           /\ register_eval(email, password).issued = issued

\* the email of a user who registered during the run was presented again in
\* another case and refused; nobody else was created
C25_Witness ==
    /\ resp.op = "register"
    /\ resp.result = "UserAlreadyExistsError"
    /\ resp.user \notin UserIds
    /\ resp.arg[1] # auth_users[resp.user].email
    /\ Cardinality(DOMAIN auth_users) = Cardinality(UserIds) + 1

\* C26: register with an email nobody has and a password that meets the
\* strength rules succeeds (201), returning the user, an access token and the
\* raw refresh token; it leaves a user with is_verified = False and
\* failed_login_attempts = 0 and exactly one refresh-token row of that user,
\* not revoked, expiring REFRESH_TOKEN_EXPIRE_DAYS later, whose hash is not
\* the raw token.
C26_RegisterIssuesTokens ==
    [][\A email \in RegisterEmails, password \in Passwords :
        (/\ register(email, password)
         /\ user_by_email(lower(email)) = NoId
         /\ check_password_strength(password))
        => (/\ resp'.result = "ok"
            /\ register_status(resp'.result) = "201"
            /\ resp'.user \in DOMAIN auth_users'
            /\ ~auth_users'[resp'.user].is_verified
            /\ auth_users'[resp'.user].failed_login_attempts = 0
            /\ Cardinality({id \in DOMAIN refresh_tokens' :
                   /\ refresh_tokens'[id].user_id = resp'.user
                   /\ ~refresh_tokens'[id].is_revoked
                   /\ refresh_tokens'[id].expires_at = now + RefreshLifetime
                   /\ refresh_tokens'[id].token_hash # FreshRaw}) = 1)]_vars

\* ------------------------------------------------------------ POST /login
\* the login endpoint with a status of its own for an unknown email
login_response_not_found(r) ==
    CASE r.result = "ok" -> [status |-> "200", detail |-> "tokens"]
      [] r.result = "InvalidCredentialsError" ->
             [status |-> "401", detail |-> "Invalid email or password"]
      [] r.result = "UserNotFoundError" ->
             [status |-> "404", detail |-> "User not found"]
      [] r.result = "UserInactiveError" ->
             [status |-> "403", detail |-> "User account is inactive"]
      [] r.result = "AccountLockedError" ->
             [status |-> "423", detail |-> <<"Account is locked until", r.info>>]
      [] OTHER -> [status |-> "500", detail |-> "Internal Server Error"]

\* the status and detail the login endpoint answers for the outcome of
\* AuthService.login; an error it does not catch is a 500
login_response(r) ==
    CASE r.result = "ok" -> [status |-> "200", detail |-> "tokens"]
      [] r.result = "InvalidCredentialsError" ->
             [status |-> "401", detail |-> "Invalid email or password"]
      [] r.result = "UserNotFoundError" ->
             [status |-> "401", detail |-> "Invalid email or password"]
      [] r.result = "UserInactiveError" ->
             [status |-> "403", detail |-> "User account is inactive"]
      [] r.result = "AccountLockedError" ->
             [status |-> "423", detail |-> <<"Account is locked until", r.info>>]
      [] OTHER -> [status |-> "500", detail |-> "Internal Server Error"]

\* the emails no user has
UnknownEmails == {email \in Emails : user_by_email(lower(email)) = NoId}

from_cache(token) ==
    /\ authenticate(token).status = "ok"
    /\ redis_hit(user_cache, issued[token].sub)

\* the rows of a token table that do not belong to user_id
without_user(tokens, user_id) ==
    [id \in {x \in DOMAIN tokens : tokens[x].user_id # user_id} |-> tokens[id]]

\* POST /me/deactivate, as a function of the current state: the assignment to
\* is_active reaches the store only when current_user was loaded by the
\* request's session
deactivate_account_eval(token) ==
    LET current_user == authenticate(token)
        user_id == current_user.user
        same == [auth_users |-> auth_users, refresh_tokens |-> refresh_tokens,
                 user_cache |-> current_user.user_cache]
    IN
    IF current_user.status # "ok"
    THEN [resp |-> Resp("deactivate_account", current_user.status, user_id, token, <<>>)]
         @@ same
    ELSE [resp |-> Resp("deactivate_account", "200", user_id, token, <<>>),
          auth_users |-> IF from_cache(token)
                         THEN auth_users
                         ELSE [auth_users EXCEPT ![user_id].is_active = FALSE],
          refresh_tokens |-> revoke_all(refresh_tokens, user_id),
          user_cache |-> invalidate_user(current_user.user_cache, user_id)] @@ same

\* POST /me/deactivate
deactivate_account(token) ==
    LET r == deactivate_account_eval(token) IN
    /\ resp' = r.resp
    /\ auth_users' = r.auth_users
    /\ refresh_tokens' = r.refresh_tokens
    /\ user_cache' = r.user_cache
    /\ UNCHANGED <<now, requests, rbac, password_reset_tokens,
                   email_verification_tokens, redis_connected, ratelimit, blacklist, issued,
                   ghost>>

\* DELETE /me: db.delete(current_user) raises for an object built from the
\* cache, and the commit fails while user_roles rows reference the user; both
\* are answered 500 after the rollback, with the user cache already invalidated
delete_account_eval(token) ==
    LET current_user == authenticate(token)
        user_id == current_user.user
        same == [auth_users |-> auth_users, refresh_tokens |-> refresh_tokens,
                 password_reset_tokens |-> password_reset_tokens,
                 email_verification_tokens |-> email_verification_tokens,
                 user_cache |-> current_user.user_cache]
    IN
    IF current_user.status # "ok"
    THEN [resp |-> Resp("delete_account", current_user.status, user_id, token, <<>>)]
         @@ same
    ELSE IF from_cache(token) \/ \E ur \in user_roles : ur.user_id = user_id
    THEN [resp |-> Resp("delete_account", "500", user_id, token, <<>>),
          user_cache |-> invalidate_user(current_user.user_cache, user_id)] @@ same
    ELSE [resp |-> Resp("delete_account", "200", user_id, token, <<>>),
          auth_users |-> [id \in (DOMAIN auth_users) \ {user_id} |-> auth_users[id]],
          refresh_tokens |-> without_user(refresh_tokens, user_id),
          password_reset_tokens |-> without_user(password_reset_tokens, user_id),
          email_verification_tokens |->
              without_user(email_verification_tokens, user_id),
          user_cache |-> invalidate_user(current_user.user_cache, user_id)]

\* DELETE /me
delete_account(token) ==
    LET r == delete_account_eval(token) IN
    /\ resp' = r.resp
    /\ auth_users' = r.auth_users
    /\ refresh_tokens' = r.refresh_tokens
    /\ password_reset_tokens' = r.password_reset_tokens
    /\ email_verification_tokens' = r.email_verification_tokens
    /\ user_cache' = r.user_cache
    /\ UNCHANGED <<now, requests, rbac, redis_connected, ratelimit, blacklist, issued, ghost>>

NextAcct ==
    \/ refresh_access_token(RefreshRaw(1))
    \/ \E token \in DOMAIN issued : get_me(token)
    \/ \E token \in DOMAIN issued : deactivate_account(token)
    \/ \E token \in DOMAIN issued : delete_account(token)
    \/ login(EmailOf(1), PwGood)
    \/ redis_outage
    \/ connect
    \/ Tick

SpecAcct == InitJwt /\ [][NextAcct]_vars

\* C28: a login with the correct password for an account that
\* deactivate_account has deactivated (is_active False in the store, not
\* locked) succeeds and leaves is_active True.
C28_LoginReactivates ==
    [][\A user_id \in UserIds :
        (/\ login(EmailOf(user_id), PwGood)
         /\ user_id \in DOMAIN auth_users
         /\ ~auth_users[user_id].is_active
         /\ ~is_locked(auth_users[user_id])
         /\ verify_password(PwGood, auth_users[user_id].password_hash))
        => (/\ resp'.result = "ok"
            /\ auth_users'[user_id].is_active)]_vars

\* the users an access token was issued to and whose row is gone
DeletedUsers == {issued[token].sub : token \in DOMAIN issued} \ DOMAIN auth_users

\* C29: once delete_account has removed user U, no refresh, password-reset or
\* email-verification row of U is left, refresh_access_token, reset_password
\* and verify_email fail with the tokens that were issued to U, and a
\* protected request carrying an access token of U is answered 401.
C29_DeletedUserIsGone ==
    \A token \in DOMAIN issued :
        LET U == issued[token].sub IN
        U \in DeletedUsers
        => /\ \A id \in DOMAIN refresh_tokens : refresh_tokens[id].user_id # U
           /\ \A id \in DOMAIN password_reset_tokens :
                  password_reset_tokens[id].user_id # U
           /\ \A id \in DOMAIN email_verification_tokens :
                  email_verification_tokens[id].user_id # U
           /\ refresh_result(RefreshRaw(U)) # "ok"
           /\ reset_matches(ResetRaw(U)) = {}
           /\ verify_matches(VerifyRaw(U)) = {}
           /\ authenticate(token).status = "401"

\* ------------------------------------- account requests, statement by statement
\* deactivate_account l.136-162 in request slot r: the dependency resolves the
\* user, the handler changes the objects of its session and invalidates the
\* user cache; nothing has reached the store yet
deactivate_account_invalidate(r, token) ==
    LET current_user == authenticate(token)
        started == [Idle EXCEPT !.op = "deactivate_account", !.token = token]
    IN
    /\ requests[r].pc = "idle"
    /\ IF current_user.status # "ok"
       THEN /\ requests' = [requests EXCEPT ![r] =
                   [started EXCEPT !.pc = "done", !.result = current_user.status]]
            /\ user_cache' = current_user.user_cache
            /\ resp' = Resp("deactivate_account", current_user.status,
                            current_user.user, token, <<>>)
       ELSE /\ requests' = [requests EXCEPT ![r] =
                   [started EXCEPT !.pc = "invalidated",
                                   !.from_cache = from_cache(token)]]
            /\ user_cache' = invalidate_user(current_user.user_cache, current_user.user)
            /\ UNCHANGED resp
    /\ UNCHANGED <<now, rbac, store, redis_connected, ratelimit, blacklist, issued, ghost>>

\* deactivate_account l.164-169 in request slot r: the commit
deactivate_account_commit(r) ==
    LET user_id == issued[requests[r].token].sub IN
    /\ requests[r].op = "deactivate_account"
    /\ requests[r].pc = "invalidated"
    /\ auth_users' = IF requests[r].from_cache \/ user_id \notin DOMAIN auth_users
                     THEN auth_users
                     ELSE [auth_users EXCEPT ![user_id].is_active = FALSE]
    /\ refresh_tokens' = revoke_all(refresh_tokens, user_id)
    /\ requests' = [requests EXCEPT ![r].pc = "done", ![r].result = "200"]
    /\ resp' = Resp("deactivate_account", "200", user_id, requests[r].token, <<>>)
    /\ UNCHANGED <<now, rbac, password_reset_tokens, email_verification_tokens,
                   cache, issued, ghost>>

\* delete_account l.50-88 in request slot r: the rows are marked for deletion
\* and the user cache is invalidated; db.delete(current_user) raises for an
\* object built from the cache (500 after the rollback)
delete_account_invalidate(r, token) ==
    LET current_user == authenticate(token)
        started == [Idle EXCEPT !.op = "delete_account", !.token = token]
    IN
    /\ requests[r].pc = "idle"
    /\ IF current_user.status # "ok"
       THEN /\ requests' = [requests EXCEPT ![r] =
                   [started EXCEPT !.pc = "done", !.result = current_user.status]]
            /\ user_cache' = current_user.user_cache
            /\ resp' = Resp("delete_account", current_user.status,
                            current_user.user, token, <<>>)
       ELSE IF from_cache(token)
       THEN /\ requests' = [requests EXCEPT ![r] =
                   [started EXCEPT !.pc = "done", !.result = "500",
                                   !.from_cache = TRUE]]
            /\ user_cache' = invalidate_user(current_user.user_cache, current_user.user)
            /\ resp' = Resp("delete_account", "500", current_user.user, token, <<>>)
       ELSE /\ requests' = [requests EXCEPT ![r] = [started EXCEPT !.pc = "invalidated"]]
            /\ user_cache' = invalidate_user(current_user.user_cache, current_user.user)
            /\ UNCHANGED resp
    /\ UNCHANGED <<now, rbac, store, redis_connected, ratelimit, blacklist, issued, ghost>>

\* delete_account l.90-104 in request slot r: the commit, which fails while
\* user_roles rows reference the user
delete_account_commit(r) ==
    LET user_id == issued[requests[r].token].sub
        failed == \E ur \in user_roles : ur.user_id = user_id
    IN
    /\ requests[r].op = "delete_account"
    /\ requests[r].pc = "invalidated"
    /\ IF failed
       THEN UNCHANGED store
       ELSE /\ auth_users' = [id \in (DOMAIN auth_users) \ {user_id} |-> auth_users[id]]
            /\ refresh_tokens' = without_user(refresh_tokens, user_id)
            /\ password_reset_tokens' = without_user(password_reset_tokens, user_id)
            /\ email_verification_tokens' =
                   without_user(email_verification_tokens, user_id)
    /\ requests' = [requests EXCEPT ![r].pc = "done",
                                    ![r].result = IF failed THEN "500" ELSE "200"]
    /\ resp' = Resp("delete_account", requests'[r].result, user_id,
                    requests[r].token, <<>>)
    /\ UNCHANGED <<now, rbac, cache, issued, ghost>>

NextOrder ==
    \/ refresh_access_token(RefreshRaw(1))
    \/ \E token \in DOMAIN issued : get_me(token)
    \/ \E r \in Requests, token \in DOMAIN issued : deactivate_account_invalidate(r, token)
    \/ \E r \in Requests : deactivate_account_commit(r)
    \/ \E r \in Requests, token \in DOMAIN issued : delete_account_invalidate(r, token)
    \/ \E r \in Requests : delete_account_commit(r)
    \/ Tick

SpecOrder == InitJwt /\ [][NextOrder]_vars

\* C30: cache-aside ordering.  A request that has invalidated or written the
\* user cache for a change of the store has committed that change: there is
\* no state in which deactivate_account or delete_account has touched the
\* cache while the user is still active, still holds unrevoked refresh tokens
\* or still exists in the store.
C30_CacheAfterCommit ==
    \A r \in Requests :
        requests[r].pc = "invalidated"
        => LET user_id == issued[requests[r].token].sub IN
           /\ requests[r].op = "deactivate_account"
              => /\ \A id \in DOMAIN refresh_tokens :
                        refresh_tokens[id].user_id = user_id
                        => refresh_tokens[id].is_revoked
                 /\ (user_id \in DOMAIN auth_users /\ ~requests[r].from_cache)
                    => ~auth_users[user_id].is_active
           /\ requests[r].op = "delete_account" => user_id \notin DOMAIN auth_users


\* ------------------------------- sessions revoking refresh tokens side by side
\* a flush that writes every row the session loaded as the session holds it
flush_revoked_whole_rows(loaded, ids) ==
    [id \in DOMAIN refresh_tokens |->
        IF id \in ids
        THEN [refresh_tokens[id] EXCEPT !.is_revoked = TRUE, !.revoked_at = now]
        ELSE IF id \in DOMAIN loaded
        THEN loaded[id]
        ELSE refresh_tokens[id]]

\* the commit of a session that loaded the rows `loaded` and set is_revoked
\* and revoked_at on the rows `ids`: the UPDATE carries the changed columns of
\* the changed rows only
flush_revoked(loaded, ids) ==
    [id \in DOMAIN refresh_tokens |->
        IF id \in ids
        THEN [refresh_tokens[id] EXCEPT !.is_revoked = TRUE, !.revoked_at = now]
        ELSE refresh_tokens[id]]

\* the rows a SELECT ... WHERE is_revoked == False AND expires_at > now loads
select_live_tokens ==
    [id \in {x \in DOMAIN refresh_tokens :
                ~refresh_tokens[x].is_revoked /\ refresh_tokens[x].expires_at > now}
        |-> refresh_tokens[id]]

\* logout l.281-292 in request slot r: the SELECT and the search for the token
logout_select(r, refresh_token) ==
    LET started == [Idle EXCEPT !.op = "logout", !.token = refresh_token] IN
    /\ requests[r].pc = "idle"
    /\ requests' = [requests EXCEPT ![r] =
           IF refresh_matches(refresh_token) = {}
           THEN [started EXCEPT !.pc = "done", !.result = "ok"]
           ELSE [started EXCEPT !.pc = "selected",
                                !.loaded = select_live_tokens,
                                !.matching_token =
                                    CHOOSE id \in refresh_matches(refresh_token) : TRUE]]
    /\ resp' = IF requests'[r].pc = "done"
               THEN Resp("logout", "ok", NoId, 0, refresh_token)
               ELSE resp
    /\ UNCHANGED <<now, rbac, store, cache, issued, ghost>>

\* logout l.293-295 in request slot r: the commit
logout_commit(r) ==
    /\ requests[r].op = "logout"
    /\ requests[r].pc = "selected"
    /\ refresh_tokens' = flush_revoked(requests[r].loaded, {requests[r].matching_token})
    /\ requests' = [requests EXCEPT ![r].pc = "done", ![r].result = "ok"]
    /\ resp' = Resp("logout", "ok", NoId, 1, requests[r].token)
    /\ UNCHANGED <<now, rbac, auth_users, password_reset_tokens,
                   email_verification_tokens, cache, issued, ghost>>

\* logout_all_devices l.306-319 in request slot r: the SELECT of the user's
\* non-revoked rows
logout_all_devices_select(r, user_id) ==
    /\ requests[r].pc = "idle"
    /\ requests' = [requests EXCEPT ![r] =
           [Idle EXCEPT !.op = "logout_all_devices", !.pc = "selected",
                        !.matching_token = user_id,
                        !.loaded = [id \in {x \in DOMAIN refresh_tokens :
                                               /\ refresh_tokens[x].user_id = user_id
                                               /\ ~refresh_tokens[x].is_revoked}
                                       |-> refresh_tokens[id]]]]
    /\ UNCHANGED <<now, rbac, store, cache, issued, ghost, resp>>

\* logout_all_devices l.321-324 in request slot r: the commit, then the
\* invalidation of the user cache
logout_all_devices_commit(r) ==
    /\ requests[r].op = "logout_all_devices"
    /\ requests[r].pc = "selected"
    /\ refresh_tokens' = flush_revoked(requests[r].loaded, DOMAIN requests[r].loaded)
    /\ user_cache' = invalidate_user(user_cache, requests[r].matching_token)
    /\ requests' = [requests EXCEPT ![r].pc = "done", ![r].result = "ok"]
    /\ resp' = Resp("logout_all_devices", "ok", requests[r].matching_token, None, <<>>)
    /\ UNCHANGED <<now, rbac, auth_users, password_reset_tokens,
                   email_verification_tokens, redis_connected, ratelimit, blacklist, issued, ghost>>

\* db.commit() for a row the session loaded: the UPDATE sets the columns whose
\* assigned value differs from the loaded one, the other columns keep what the
\* store holds
flush_changed(stored, loaded, assigned) ==
    [f \in DOMAIN stored |-> IF assigned[f] # loaded[f] THEN assigned[f] ELSE stored[f]]

\* login l.152-175 in request slot r: the SELECT of the user and the checks
\* up to the password check; the session holds the user row as it was read
login_select(r, email, password) ==
    LET uid == user_by_email(lower(email))
        started == [Idle EXCEPT !.op = "login", !.token = email, !.password = password]
        failed(error) == [started EXCEPT !.pc = "done", !.result = error]
    IN
    /\ requests[r].pc = "idle"
    /\ requests' = [requests EXCEPT ![r] =
           IF uid = NoId THEN failed("UserNotFoundError")
           ELSE IF is_locked(auth_users[uid]) THEN failed("AccountLockedError")
           ELSE IF ~auth_users[uid].is_active THEN failed("UserInactiveError")
           ELSE [started EXCEPT !.pc = "selected", !.matching_token = uid,
                                !.loaded = auth_users[uid]]]
    /\ resp' = IF requests'[r].pc = "done"
               THEN Resp("login", requests'[r].result, uid, None, password)
               ELSE resp
    /\ UNCHANGED <<now, rbac, store, cache, issued, ghost>>

\* login l.176-213 in request slot r: the commit of the counter and lockout
\* computed from the row the session read, column by column; after a passed check the cache is
\* refreshed and hash_password raises on the pair create_refresh_token returns
login_commit(r) ==
    LET uid == requests[r].matching_token
        user == requests[r].loaded
        passed == verify_password(requests[r].password, user.password_hash)
        attempts == user.failed_login_attempts + 1
        assigned == IF passed
                    THEN [user EXCEPT !.failed_login_attempts = 0,
                                      !.locked_until = None,
                                      !.last_login_at = now]
                    ELSE [user EXCEPT
                             !.failed_login_attempts = attempts,
                             !.locked_until = lock_after_failure(attempts, user.locked_until)]
        written == flush_changed(auth_users[uid], user, assigned)
    IN
    /\ requests[r].op = "login"
    /\ requests[r].pc = "selected"
    /\ auth_users' = [auth_users EXCEPT ![uid] = written]
    /\ user_cache' = IF passed
                     THEN set_user(invalidate_user(user_cache, uid), uid, written)
                     ELSE user_cache
    /\ requests' = [requests EXCEPT ![r].pc = "done",
                      ![r].result = IF passed
                                    THEN hash_password(create_refresh_token(FreshRaw)).raised
                                    ELSE "InvalidCredentialsError"]
    /\ resp' = Resp("login", requests'[r].result, uid, None, requests[r].password)
    /\ login_fail_run' = [login_fail_run EXCEPT ![uid] = IF passed THEN 0 ELSE @ + 1]
    /\ fail_run' = [fail_run EXCEPT ![uid] = IF passed THEN 0 ELSE @ + 1]
    /\ fail_at' = IF passed THEN fail_at ELSE [fail_at EXCEPT ![uid] = now]
    /\ UNCHANGED <<now, rbac, refresh_tokens, password_reset_tokens,
                   email_verification_tokens, redis_connected, ratelimit, blacklist, issued>>

NextRevoke ==
    \/ \E r \in Requests, refresh_token \in {RefreshRaw(1), RefreshRaw(2)} :
           logout_select(r, refresh_token)
    \/ \E r \in Requests : logout_commit(r)
    \/ \E r \in Requests : logout_all_devices_select(r, 1)
    \/ \E r \in Requests : logout_all_devices_commit(r)
    \/ \E r \in Requests : reset_password_select(r, ResetRaw(1), PwNew)
    \/ \E r \in Requests : reset_password_commit(r)
    \/ \E r \in Requests : login_select(r, EmailOf(1), PwWeak)
    \/ \E r \in Requests : login_commit(r)
    \/ \E refresh_token \in {RefreshRaw(1), RefreshRaw(2)} :
           refresh_access_token(refresh_token)
    \/ Tick

SpecRevoke == Init /\ [][NextRevoke]_vars

\* C31: under every interleaving of login, refresh_access_token, logout,
\* logout_all_devices and reset_password for one user, a refresh-token row
\* that is revoked stays revoked through every later step, whichever request
\* commits, and refresh_access_token never accepts its raw token again.
C31_RevocationNeverLost ==
    [][\A id \in DOMAIN refresh_tokens :
        refresh_tokens[id].is_revoked
        => /\ id \in DOMAIN refresh_tokens'
           /\ refresh_tokens'[id].is_revoked
           /\ refresh_tokens'[id].revoked_at # None
           /\ \A refresh_token \in {RefreshRaw(1), RefreshRaw(2)} :
                  (verify_password(refresh_token, refresh_tokens[id].token_hash)
                   /\ refresh_access_token(refresh_token))
                  => resp'.result # "ok"]_vars

\* a logout of token 1 that read token 2 as not revoked has committed last,
\* after the logout of token 2, and both tokens are revoked
C31_Witness ==
    /\ \E r \in Requests, q \in Requests :
          /\ requests[r].op = "logout"
          /\ requests[r].pc = "done"
          /\ requests[r].matching_token = 1
          /\ 2 \in DOMAIN requests[r].loaded
          /\ requests[q].op = "logout"
          /\ requests[q].pc = "done"
          /\ requests[q].matching_token = 2
    /\ resp.op = "logout"
    /\ resp.arg = RefreshRaw(1)
    /\ refresh_tokens[1].is_revoked
    /\ refresh_tokens[2].is_revoked


\* the assignment rows of one (user, role, agency) triple
RowsOf(u, r, a) ==
    {ur \in user_roles : ur.user_id = u /\ ur.role_id = r /\ ur.agency_id = a}

\* C32: revoke_role(u, r, T) deletes every assignment row of the triple
\* (u, r, T), expired ones included, and no other row; it returns True iff it
\* deleted at least one row, and afterwards has_role(u, T, name of r) is false.
C32_RevokeRoleFrame ==
    [][\A g \in Grants :
        revoke_role(g[1], g[2], g[3])
        => (/\ user_roles' = user_roles \ RowsOf(g[1], g[2], g[3])
            /\ resp'.result = IF RowsOf(g[1], g[2], g[3]) # {} THEN "True" ELSE "False"
            /\ g[2] \in DOMAIN roles => ~(has_role(g[1], g[3], roles[g[2]].name))'
            /\ roles' = roles
            /\ role_permissions' = role_permissions)]_vars

\* revoke_role deleted two rows of a triple, an expired one and a live one,
\* and the user is left with an assignment in another agency only
C32_Witness ==
    /\ resp.op = "revoke_role"
    /\ resp.result = "True"
    /\ resp.arg[1] = 2
    /\ \E ur \in user_roles : ur.user_id = resp.user /\ ur.agency_id # resp.info
    /\ \A ur \in user_roles : ~(ur.user_id = resp.user /\ ur.agency_id = resp.info)


\* the roles other than R that user u holds in agency T, not expired
OtherActiveRoles(u, T, R) == ActiveRoles(u, T) \ {R}

\* C33: set_role_permissions(R, P) on an existing role R leaves
\* get_role_permissions(R) equal to P, earlier permissions outside P removed,
\* and the permissions of every other role as they were; every user holding
\* R in an agency through a non-expired assignment then resolves, from the
\* store, P together with the permissions of the other roles held there.
C33_SetRolePermissionsReplaces ==
    [][\A P \in {{}, {"contacts.edit"}} :
        (set_role_permissions(2, P) /\ 2 \in DOMAIN roles)
        => (/\ resp'.result = "ok"
            /\ get_role_permissions(2)' = P
            /\ \A r \in (DOMAIN roles) \ {2} :
                   get_role_permissions(r)' = get_role_permissions(r)
            /\ user_roles' = user_roles
            /\ \A u \in UserIds, T \in Agencies :
                   2 \in ActiveRoles(u, T)
                   => get_user_permissions(u, T, FALSE)'
                          = P \cup UNION {get_role_permissions(r) :
                                             r \in OtherActiveRoles(u, T, 2)})]_vars

\* set_role_permissions replaced the permission of role 2 by contacts.edit:
\* a user who holds only that role in agency 2 resolves contacts.edit and no
\* longer contacts.view
C33_Witness ==
    /\ resp.op = "set_role_permissions"
    /\ resp.result = "ok"
    /\ get_role_permissions(2) = {"contacts.edit"}
    /\ ActiveRoles(1, 2) = {2}
    /\ get_user_permissions(1, 2, FALSE) = {"contacts.edit"}
    /\ get_role_permissions(1) # {}

\* ------------------------------------------------------------ rate limiting
\* RateLimits.REGISTER and the multiplier of authenticated callers
REGISTER == [requests |-> 3, window_seconds |-> 60]
USER_MULTIPLIER == 2

\* the callers of one endpoint: what RateLimitingMiddleware._get_identifier and
\* request.state.authenticated give for an anonymous and for an authenticated one
Callers == {[identifier |-> "ip:10.0.0.1", is_authenticated |-> FALSE],
            [identifier |-> "user:1", is_authenticated |-> TRUE]}

\* f"{cls.KEY_PREFIX}:{limit_type}:{identifier}"
ratelimit_key(limit_type, identifier) == <<"ratelimit", limit_type, identifier>>

\* the members of the sorted set of a key; a member is <<score, order of the read>>
zmembers(store_, key) == IF key \in DOMAIN store_ THEN store_[key].members ELSE {}

\* time.time() in seconds.  Two reads never give the same float: the reads that
\* requests of one key make within one minute of the model clock are told apart
\* by their order
time_reads(key) ==
    zmembers(ratelimit, key)
        \cup {requests[r].loaded.now : r \in {x \in Requests :
                                               /\ requests[x].op = "check_rate_limit"
                                               /\ requests[x].loaded # <<>>
                                               /\ requests[x].loaded.key = key}}
time_time(key) == <<now * 60, Cardinality({t \in time_reads(key) : t[1] = now * 60})>>

\* max_requests = config.requests, times USER_MULTIPLIER if is_authenticated
max_requests(config, is_authenticated) ==
    IF is_authenticated THEN config.requests * USER_MULTIPLIER ELSE config.requests

\* pipe.zremrangebyscore(key, 0, window_start): an emptied sorted set is no key
zremrangebyscore(store_, key, lo, hi) ==
    LET kept == {m \in zmembers(store_, key) : ~(lo <= m[1] /\ m[1] <= hi)}
    IN IF key \notin DOMAIN store_ THEN store_
       ELSE IF kept = {}
            THEN [k \in (DOMAIN store_) \ {key} |-> store_[k]]
            ELSE [store_ EXCEPT ![key].members = kept]

\* redis_client.zadd(key, {str(now): now}), then expire(key, window_seconds + 60)
zadd_expire(store_, key, member, ttl) ==
    [k \in (DOMAIN store_) \cup {key} |->
        IF k = key
        THEN [members |-> zmembers(store_, key) \cup {member},
              expires |-> member[1] + ttl]
        ELSE store_[k]]

\* redis_client.zrange(key, 0, 0, withscores=True): the score of the oldest member
oldest_score(store_, key) ==
    LET ms == zmembers(store_, key)
    IN IF ms = {} THEN None
       ELSE (CHOOSE m \in ms : \A o \in ms : m[1] < o[1] \/ (m[1] = o[1] /\ m[2] <= o[2]))[1]

Max(a, b) == IF a >= b THEN a ELSE b

\* RateLimiter.check_rate_limit up to the result of the pipeline: the clock is
\* read, the old members are removed and the members left are counted
check_rate_limit_count(r, caller, limit_type, config) ==
    LET key == ratelimit_key(limit_type, caller.identifier) IN
    LET t == time_time(key) IN
    LET pruned == zremrangebyscore(ratelimit, key, 0, t[1] - config.window_seconds) IN
    /\ requests[r].pc = "idle"
    /\ IF ~redis_connected
       THEN /\ requests' = [requests EXCEPT ![r] = [Idle EXCEPT !.op = "check_rate_limit",
                                                              !.pc = "done",
                                                              !.result = "True"]]
            /\ resp' = Resp("check_rate_limit", "True", NoId, config.requests,
                            <<key, config.window_seconds>>)
            /\ UNCHANGED ratelimit
       ELSE /\ ratelimit' = pruned
            /\ requests' = [requests EXCEPT ![r] =
                   [Idle EXCEPT !.op = "check_rate_limit",
                                !.pc = "counted",
                                !.loaded = [key |-> key, now |-> t, config |-> config,
                                            max_requests |->
                                                max_requests(config, caller.is_authenticated),
                                            current_count |->
                                                Cardinality(zmembers(pruned, key))]]]
            /\ UNCHANGED resp
    /\ UNCHANGED <<now, rbac, store, redis_connected, user_cache, blacklist, issued, ghost>>

\* the rest of RateLimiter.check_rate_limit: over the limit the request is refused
\* with the time to the oldest member's exit; otherwise the request is added to
\* the sorted set and admitted.  A Redis error admits the request
check_rate_limit_add(r) ==
    LET l == requests[r].loaded IN
    /\ requests[r].op = "check_rate_limit"
    /\ requests[r].pc = "counted"
    /\ IF ~redis_connected
       THEN /\ resp' = Resp("check_rate_limit", "True", NoId, l.config.requests,
                            <<l.key, l.config.window_seconds>>)
            /\ UNCHANGED ratelimit
       ELSE IF l.current_count >= l.max_requests
       THEN /\ resp' = Resp("check_rate_limit", "False", NoId, 0,
                            <<l.key,
                              LET oldest == oldest_score(ratelimit, l.key)
                              IN Max(1, IF oldest = None THEN l.config.window_seconds
                                        ELSE oldest + l.config.window_seconds - l.now[1])>>)
            /\ UNCHANGED ratelimit
       ELSE /\ ratelimit' = zadd_expire(ratelimit, l.key, l.now,
                                        l.config.window_seconds + 60)
            /\ resp' = Resp("check_rate_limit", "True", NoId,
                            l.max_requests - l.current_count - 1,
                            <<l.key, l.config.window_seconds>>)
    /\ requests' = [requests EXCEPT ![r].pc = "done", ![r].result = resp'.result]
    /\ UNCHANGED <<now, rbac, store, redis_connected, user_cache, blacklist, issued, ghost>>

\* RateLimiter.check_rate_limit of a request that no other request interleaves
check_rate_limit(caller, limit_type, config) ==
    LET key == ratelimit_key(limit_type, caller.identifier) IN
    LET t == time_time(key) IN
    LET pruned == zremrangebyscore(ratelimit, key, 0, t[1] - config.window_seconds) IN
    LET current_count == Cardinality(zmembers(pruned, key)) IN
    LET limit == max_requests(config, caller.is_authenticated) IN
    /\ IF ~redis_connected
       THEN /\ resp' = Resp("check_rate_limit", "True", NoId, config.requests,
                            <<key, config.window_seconds>>)
            /\ UNCHANGED ratelimit
       ELSE IF current_count >= limit
       THEN /\ ratelimit' = pruned
            /\ resp' = Resp("check_rate_limit", "False", NoId, 0,
                            <<key,
                              LET oldest == oldest_score(pruned, key)
                              IN Max(1, IF oldest = None THEN config.window_seconds
                                        ELSE oldest + config.window_seconds - t[1])>>)
       ELSE /\ ratelimit' = zadd_expire(pruned, key, t, config.window_seconds + 60)
            /\ resp' = Resp("check_rate_limit", "True", NoId, limit - current_count - 1,
                            <<key, config.window_seconds>>)
    /\ UNCHANGED <<now, requests, rbac, store, redis_connected, user_cache, blacklist,
                   issued, ghost>>

NextRate ==
    \/ \E r \in Requests :
           check_rate_limit_count(r, [identifier |-> "ip:10.0.0.1", is_authenticated |-> FALSE],
                                  "register", REGISTER)
    \/ \E r \in Requests : check_rate_limit_add(r)
    \/ \E c \in Callers : check_rate_limit(c, "register", REGISTER)
    \/ Tick

SpecRate == Init /\ [][NextRate]_vars

\* the requests of a key admitted within the window that starts with member m
InWindow(key, m, window_seconds) ==
    {o \in zmembers(ratelimit, key) : m[1] <= o[1] /\ o[1] < m[1] + window_seconds}

\* C34: every member of a key's sorted set is a request that check_rate_limit
\* admitted while Redis was available; for every caller, no window of
\* window_seconds holds more admitted requests than the caller's maximum
\* (requests, doubled for an authenticated caller)
C34_WindowNeverExceeded ==
    \A c \in Callers :
        LET key == ratelimit_key("register", c.identifier) IN
        \A m \in zmembers(ratelimit, key) :
            Cardinality(InWindow(key, m, REGISTER.window_seconds))
                <= max_requests(REGISTER, c.is_authenticated)

\* ------------------------------------------------- lockout under concurrency
\* logins of user 1 with a wrong password, logins of user 1 in request slots
\* with the right and with a wrong password, and the clock
NextLockRace ==
    \/ login(EmailOf(1), PwWeak)
    \/ \E r \in Requests, password \in {PwGood, PwWeak} :
           login_select(r, EmailOf(1), password)
    \/ \E r \in Requests : login_commit(r)
    \/ Tick

SpecLockRace == Init /\ [][NextLockRace]_vars

\* C35: in every reachable state every user record with a lockout time has a
\* failure counter of at least MAX_FAILED_ATTEMPTS
C35_LockedOnlyAtMaximum ==
    \A id \in DOMAIN auth_users :
        auth_users[id].locked_until # None
        => auth_users[id].failed_login_attempts >= MAX_FAILED_ATTEMPTS

\* ----------------------------------------------------------- inactive users
\* user 2 is inactive from the start and holds a live refresh token; user 1 can
\* be locked by failed logins and can deactivate the account
InactiveRaws == {RefreshRaw(1), RefreshRaw(3), UnknownRaw}

NextInactive ==
    \/ \E id \in UserIds, password \in {PwGood, PwWeak} : login(EmailOf(id), password)
    \/ \E refresh_token \in InactiveRaws : refresh_access_token(refresh_token)
    \/ \E token \in DOMAIN issued : deactivate_account(token)
    \/ Tick

SpecInactive == InitLock /\ [][NextInactive]_vars

\* the stored user is inactive
Inactive(id) == id \in DOMAIN auth_users /\ ~auth_users[id].is_active

\* the refresh-token rows of user id whose hash the raw token matches
RowsOfRaw(id, refresh_token) ==
    {t \in DOMAIN refresh_tokens :
        /\ refresh_tokens[t].user_id = id
        /\ verify_password(refresh_token, refresh_tokens[t].token_hash)}

\* the claim as stated: every login and every refresh_access_token for an
\* inactive user fails with UserInactiveError
C36_Original ==
    [][\A id \in UserIds :
        Inactive(id)
        => /\ \A password \in {PwGood, PwWeak} :
                  login(EmailOf(id), password) => resp'.result = "UserInactiveError"
           /\ \A refresh_token \in InactiveRaws :
                  (refresh_access_token(refresh_token) /\ RowsOfRaw(id, refresh_token) # {})
                  => resp'.result = "UserInactiveError"]_vars

\* C36: while the stored is_active of a user is false, login fails whatever the
\* password, with AccountLockedError while a lockout is in force and with
\* UserInactiveError otherwise, and refresh_access_token fails for every refresh
\* token of the user, with UserInactiveError when the token matches a
\* non-revoked, unexpired row and with InvalidTokenError otherwise; the call
\* issues no access token, creates no refresh-token row and leaves
\* failed_login_attempts, locked_until and last_login_at (the whole user table)
\* unchanged
C36_NoTokenForInactiveUser ==
    [][\A id \in UserIds :
        Inactive(id)
        => /\ \A password \in {PwGood, PwWeak} :
                  login(EmailOf(id), password)
                  => /\ resp'.result = IF is_locked(auth_users[id])
                                       THEN "AccountLockedError"
                                       ELSE "UserInactiveError"
                     /\ UNCHANGED <<auth_users, refresh_tokens, issued>>
           /\ \A refresh_token \in InactiveRaws :
                  (refresh_access_token(refresh_token) /\ RowsOfRaw(id, refresh_token) # {})
                  => /\ resp'.result =
                            IF RowsOfRaw(id, refresh_token) \cap refresh_matches(refresh_token) # {}
                            THEN "UserInactiveError"
                            ELSE "InvalidTokenError"
                     /\ UNCHANGED <<auth_users, refresh_tokens, issued>>]_vars

\* user 1, locked by failed logins and then deactivated, has been refused a
\* login with the correct password
C36_Witness ==
    /\ Inactive(1)
    /\ is_locked(auth_users[1])
    /\ resp.op = "login"
    /\ resp.arg = PwGood
    /\ resp.user = 1
    /\ resp.result = "AccountLockedError"
    /\ issued # EmptyMap

\* C37: once a deactivate_account request of user U that set is_active to False
\* in the store has completed, a protected request carrying U's access token
\* is refused, whatever requests of U ran between the steps of the deactivation
C37_DeactivatedIsRefused ==
    \A r \in Requests :
        (/\ requests[r].op = "deactivate_account"
         /\ requests[r].pc = "done"
         /\ requests[r].result = "200"
         /\ ~requests[r].from_cache)
        => authenticate(requests[r].token).status # "ok"

\* ------------------------------------------------ registration side by side
\* register l.77-88 in request slot r: the SELECT for an existing user and the
\* strength check
register_select(r, email, password) ==
    LET existing_user == user_by_email(lower(email))
        started == [Idle EXCEPT !.op = "register", !.token = email, !.password = password]
        failed(error) == [started EXCEPT !.pc = "done", !.result = error]
    IN
    /\ requests[r].pc = "idle"
    /\ requests' = [requests EXCEPT ![r] =
           IF existing_user # NoId THEN failed("UserAlreadyExistsError")
           ELSE IF ~check_password_strength(password) THEN failed("ValueError")
           ELSE [started EXCEPT !.pc = "selected"]]
    /\ resp' = IF requests'[r].pc = "done"
               THEN Resp("register", requests'[r].result, existing_user, None,
                         <<email, password>>)
               ELSE resp
    /\ UNCHANGED <<now, rbac, store, cache, issued, ghost>>

\* register l.90-127 in request slot r: the INSERT and its commit, the user
\* cache, and hash_password raising on the pair create_refresh_token returns.
\* The column email is declared with sa_column=Column(Text), which carries no
\* unique constraint: the INSERT of a second row with the same email succeeds
register_commit(r) ==
    LET uid == NextId(auth_users)
        user == NewUser(lower(requests[r].token),
                        hash_password(PyStr(requests[r].password)).hash)
    IN
    /\ requests[r].op = "register"
    /\ requests[r].pc = "selected"
    /\ auth_users' = with_user(auth_users, uid, user)
    /\ user_cache' = set_user(user_cache, uid, user)
    /\ requests' = [requests EXCEPT ![r].pc = "done", ![r].matching_token = uid,
                      ![r].result = hash_password(create_refresh_token(FreshRaw)).raised]
    /\ resp' = Resp("register", requests'[r].result, uid, None,
                    <<requests[r].token, requests[r].password>>)
    /\ login_fail_run' = with_user(login_fail_run, uid, 0)
    /\ fail_run' = with_user(fail_run, uid, 0)
    /\ fail_at' = with_user(fail_at, uid, None)
    /\ UNCHANGED <<now, rbac, refresh_tokens, password_reset_tokens,
                   email_verification_tokens, redis_connected, ratelimit, blacklist, issued>>

NextRegRace ==
    \/ \E r \in Requests, email \in RegisterEmails, password \in {PwGood, PwWeak} :
           register_select(r, email, password)
    \/ \E r \in Requests : register_commit(r)
    \/ \E email \in RegisterEmails : register(email, PwGood)
    \/ Tick

SpecRegRace == Init /\ [][NextRegRace]_vars

\* C38: no reachable state holds two user records whose emails are equal up
\* to letter case, whatever the interleaving of the register calls
C38_EmailUnique ==
    \A a \in DOMAIN auth_users, b \in DOMAIN auth_users :
        lower(auth_users[a].email) = lower(auth_users[b].email) => a = b

\* ---------------------------------------------- role assignment side by side
\* the non-expired assignment rows of a (user, role, agency) triple
live_assignments(user_id, role_id, agency_id) ==
    {ur \in user_roles :
        /\ ur.user_id = user_id
        /\ ur.role_id = role_id
        /\ ur.agency_id = agency_id
        /\ not_expired(ur)}

\* PermissionService.has_role as a call: result.scalar_one_or_none() raises
\* MultipleResultsFound when the join selects more than one row
has_role_result(user_id, agency_id, role_name) ==
    LET selected == {ur \in user_roles :
                        /\ ur.role_id \in DOMAIN roles
                        /\ ur.user_id = user_id
                        /\ ur.agency_id = agency_id
                        /\ roles[ur.role_id].name = role_name
                        /\ not_expired(ur)}
    IN IF Cardinality(selected) > 1 THEN "MultipleResultsFound"
       ELSE IF selected # {} THEN "True"
       ELSE "False"

\* assign_role l.262-298 in request slot r: the lookups of user, role and
\* agency and the SELECT of an existing, non-expired assignment
assign_role_select(r, user_id, role_id, agency_id, expires_at) ==
    LET existing == live_assignments(user_id, role_id, agency_id)
        started == [Idle EXCEPT !.op = "assign_role",
                                !.loaded = NewUserRole(user_id, role_id, agency_id,
                                                       expires_at)]
        ended(result) == [started EXCEPT !.pc = "done", !.result = result]
    IN
    /\ requests[r].pc = "idle"
    /\ requests' = [requests EXCEPT ![r] =
           IF user_id \notin DOMAIN auth_users \/ role_id \notin DOMAIN roles
              \/ agency_id \notin Agencies
           THEN ended("InvalidInputError")
           ELSE IF Cardinality(existing) > 1 THEN ended("MultipleResultsFound")
           ELSE IF existing # {} THEN ended("ok")
           ELSE [started EXCEPT !.pc = "selected"]]
    /\ resp' = IF requests'[r].pc = "done"
               THEN Resp("assign_role", requests'[r].result, user_id, agency_id,
                         <<expires_at>> \o (IF requests'[r].result = "ok"
                                            THEN <<CHOOSE ur \in existing : TRUE>>
                                            ELSE <<>>))
               ELSE resp
    /\ UNCHANGED <<now, store, cache, issued, ghost, rbac>>

\* assign_role l.300-317 in request slot r: the INSERT of the assignment and
\* its commit; user_roles has no unique constraint on the triple
assign_role_commit(r) ==
    LET assignment == requests[r].loaded IN
    /\ requests[r].op = "assign_role"
    /\ requests[r].pc = "selected"
    /\ user_roles' = user_roles \cup {assignment}
    /\ requests' = [requests EXCEPT ![r].pc = "done", ![r].result = "ok"]
    /\ resp' = Resp("assign_role", "ok", assignment.user_id, assignment.agency_id,
                    <<assignment.expires_at, assignment>>)
    /\ UNCHANGED <<now, store, cache, issued, ghost, roles, role_permissions, perm_cache>>

NextGrantRace ==
    \/ \E r \in Requests, expires_at \in {None, ClockStep, 2 * ClockStep} :
           assign_role_select(r, 1, 1, 1, expires_at)
    \/ \E r \in Requests : assign_role_commit(r)
    \/ \E expires_at \in {None, ClockStep} : assign_role(1, 1, 1, expires_at)
    \/ revoke_role(1, 1, 1)
    \/ Tick

SpecGrantRace == Init /\ [][NextGrantRace]_vars

\* C39: whatever the interleaving of the assign_role calls for a (user, role,
\* agency) triple, at most one non-expired assignment row of the triple
\* exists, and a later assign_role or has_role call for the triple returns
\* normally
C39_OneLiveAssignment ==
    /\ Cardinality(live_assignments(1, 1, 1)) <= 1
    /\ assign_role_eval(1, 1, 1, None).result = "ok"
    /\ has_role_result(1, 1, roles[1].name) # "MultipleResultsFound"

\* ------------------------------------------- reset with a rejected password
\* C40: reset_password with a token that matches an unconsumed, unexpired row
\* and a password that fails the strength policy fails with the validation
\* error and leaves the token row, the user row (password hash, failure
\* counter, lockout), the refresh tokens and the user cache unchanged; the
\* token still matches afterwards, so a later reset can use it
C40_WeakPasswordKeepsToken ==
    [][\A reset_token \in ResetRaws, new_password \in Passwords :
        (/\ reset_password(reset_token, new_password)
         /\ ~check_password_strength(new_password)
         /\ reset_matches(reset_token) # {})
        => (/\ resp'.result = "ValueError"
            /\ UNCHANGED <<password_reset_tokens, auth_users, refresh_tokens, user_cache>>
            /\ (reset_matches(reset_token))' = reset_matches(reset_token))]_vars

\* a reset with a weak password has just been refused for a locked user whose
\* token is still unconsumed
C40_Witness ==
    /\ resp.op = "reset_password"
    /\ resp.result = "ValueError"
    /\ reset_matches(resp.arg) # {}
    /\ \E id \in DOMAIN auth_users :
          /\ is_locked(auth_users[id])
          /\ \E tid \in reset_matches(resp.arg) : password_reset_tokens[tid].user_id = id
====
